---------------------------- MODULE Spec2Model ----------------------------
(***************************************************************************)
(* Model of the state-vector engine and two-phase gate search of           *)
(* func_2.py (mainCalc and the functions it calls), and of the request     *)
(* handler and calculation threads of mainQuantum.py.                      *)
(*                                                                         *)
(* Number representation.  The program computes with Python floats and     *)
(* numpy complex numbers.  The model computes exactly:                     *)
(*   - a real number is a rational <<n, d>>, d > 0, in lowest terms;       *)
(*   - an amplitude is a Gaussian integer <<re, im>>; a state vector is    *)
(*     [amp, h], standing for the numpy array amp * 2^(-h/2);              *)
(*   - a 2x2 matrix is [m, h], standing for m * 2^(-h/2);                  *)
(*   - an error score (a non-negative real e) is carried as e^2, a         *)
(*     rational.  On the values the model reaches, two different scores    *)
(*     differ by far more than 1e-12, so "a - 1e-12 > b" is "a^2 > b^2".   *)
(* Two parts keep the floats' own behaviour.  Where the 1e-12 of           *)
(* diff_compare decides, a score is [half, tick], half * 0.5 + tick *      *)
(* 5e-13.  Where rounding decides, a float64 is [neg, mant, exp] with a    *)
(* 53-bit mantissa and products are rounded to nearest, ties to even.      *)
(* A Python exception is the outcome [kind |-> "raised", value |-> name].  *)
(***************************************************************************)
EXTENDS Integers, Sequences, FiniteSets, TLC

VARIABLES
    pc,                 \* position in mainCalc
    args,               \* mainCalc's arguments other than initialize_state
    heap,               \* numpy arrays: object id -> state vector (or NoArray)
    result_state,       \* object id bound to result_state
    state,              \* object id bound to state, or Unbound
    data_1_state,       \* object id bound to data_1_state, or Unbound
    calc_order,         \* add_order's result
    progressConst,      \* the coefficients of lines 637-652
    min_diff,           \* running minimum (squared)
    num, index_1, index_2,      \* Phase 1 loop counters
    qubit_i, index,             \* Phase 2 loop counters (i, index)
    gate_array,                 \* committed records
    gate_array_result_1, gate_array_result_2, gate_array_result,
    ret,                \* what mainCalc returned or raised, NoReturn before
    callback,           \* what the progress callback has seen and answered
    evaluated,          \* number of candidate evaluations carried out
    probe,              \* input and result of a function applied on its own
    thread_stop_flags,  \* mainQuantum.py: user id -> stop flag
    threads,            \* mainQuantum.py: the calculation threads started
    handler             \* mainQuantum.py: position of get_vector

\* The variables of mainCalc and those of the web layer
calcVars == <<pc, args, heap, result_state, state, data_1_state, calc_order,
              progressConst, min_diff, num, index_1, index_2, qubit_i, index,
              gate_array, gate_array_result_1, gate_array_result_2,
              gate_array_result, ret, callback, evaluated, probe>>

webVars == <<thread_stop_flags, threads, handler>>

vars == <<pc, args, heap, result_state, state, data_1_state, calc_order,
          progressConst, min_diff, num, index_1, index_2, qubit_i, index,
          gate_array, gate_array_result_1, gate_array_result_2,
          gate_array_result, ret, callback, evaluated, probe,
          thread_stop_flags, threads, handler>>

-----------------------------------------------------------------------------
(* Bounds of the model *)

MaxQubits == 3
MaxShort == 2
MaxLong == 2

-----------------------------------------------------------------------------
(* Exact arithmetic *)

Abs(x) == IF x < 0 THEN -x ELSE x

RECURSIVE GCD(_, _)
GCD(a, b) == IF b = 0 THEN a ELSE GCD(b, a % b)

Pow2(k) == 2 ^ k

\* The rational n/d in lowest terms with a positive denominator (d # 0).
Rat(n, d) ==
    LET g == GCD(Abs(n), Abs(d))
        s == IF d < 0 THEN -1 ELSE 1
    IN  <<(s * n) \div g, (s * d) \div g>>

RInt(k) == <<k, 1>>
RAdd(a, b) == Rat(a[1] * b[2] + b[1] * a[2], a[2] * b[2])
RSub(a, b) == Rat(a[1] * b[2] - b[1] * a[2], a[2] * b[2])
RMul(a, b) == Rat(a[1] * b[1], a[2] * b[2])
RDiv(a, b) == Rat(a[1] * b[2], a[2] * b[1])
RLess(a, b) == a[1] * b[2] < b[1] * a[2]
RLeq(a, b) == a[1] * b[2] <= b[1] * a[2]
RAbs(a) == <<Abs(a[1]), a[2]>>
RIsZero(a) == a[1] = 0

\* The square root of a rational that is the square of a rational.
ISqrt(k) == CHOOSE r \in 0..k : r * r = k
RSqrt(a) == <<ISqrt(a[1]), ISqrt(a[2])>>

\* Gaussian integers
CAdd(a, b) == <<a[1] + b[1], a[2] + b[2]>>
CMul(a, b) == <<a[1] * b[1] - a[2] * b[2], a[1] * b[2] + a[2] * b[1]>>
CConj(a) == <<a[1], -a[2]>>
CAbsSq(a) == a[1] * a[1] + a[2] * a[2]

-----------------------------------------------------------------------------
(* Vectors, matrices and the constants of the program *)

NoArray == <<>>
Unbound == -1

Dim(numQubit) == Pow2(numQubit)

\* X (func_2.py:25): the Pauli-X matrix.
X == [m |-> << << <<0, 0>>, <<1, 0>> >>, << <<1, 0>>, <<0, 0>> >> >>, h |-> 0]

\* Candidate matrices used as table contents: identity and Hadamard.
MatI == [m |-> << << <<1, 0>>, <<0, 0>> >>, << <<0, 0>>, <<1, 0>> >> >>, h |-> 0]
MatH == [m |-> << << <<1, 0>>, <<1, 0>> >>, << <<1, 0>>, <<-1, 0>> >> >>, h |-> 1]

\* One qubit at azimuth phi and polar angle theta (degrees, multiples of 90):
\* cos(theta/2)|0> + e^(i phi) sin(theta/2)|1>   (func_2.py:84-90)
ExpI(phi) ==
    CASE phi % 360 = 0 -> <<1, 0>>
      [] phi % 360 = 90 -> <<0, 1>>
      [] phi % 360 = 180 -> <<-1, 0>>
      [] phi % 360 = 270 -> <<0, -1>>

SingleQubit(phi, theta) ==
    CASE theta = 0 -> [amp |-> << <<1, 0>>, <<0, 0>> >>, h |-> 0]
      [] theta = 90 -> [amp |-> << <<1, 0>>, ExpI(phi) >>, h |-> 1]
      [] theta = 180 -> [amp |-> << <<0, 0>>, ExpI(phi) >>, h |-> 0]

\* calc_initialize_state after the first k entries of initialize_values
RECURSIVE InitializePrefix(_, _)
InitializePrefix(initialize_values, k) ==
    IF k = 0
    THEN [amp |-> [j \in 0..0 |-> <<1, 0>>], h |-> 0]
    ELSE LET initialize_state == InitializePrefix(initialize_values, k - 1)
             data == initialize_values[k]
             initialize == SingleQubit(data[1], data[2])
         IN  [amp |-> [j \in 0..(Pow2(k) - 1) |->
                         CMul(initialize_state.amp[j \div 2],
                              initialize.amp[(j % 2) + 1])],
              h |-> initialize_state.h + initialize.h]

calc_initialize_state(initialize_values) ==
    InitializePrefix(initialize_values, Len(initialize_values))

\* A descriptor with the roles of target and control exchanged
CreateGateArraySwapped(numQubit, targetQubit, controlQubit) ==
    IF controlQubit = -1
    THEN [q \in 1..numQubit |-> IF q = targetQubit + 1 THEN "TG" ELSE ""]
    ELSE [q \in 1..numQubit |->
             IF q = controlQubit + 1 THEN "TG"
             ELSE IF q = targetQubit + 1 THEN "c" ELSE ""]

\* CreateGateArray: the role of qubit q is gate[q + 1].
CreateGateArray(numQubit, targetQubit, controlQubit) ==
    LET gate0 == [q \in 1..numQubit |-> ""]
        gate1 == IF controlQubit # -1
                 THEN [gate0 EXCEPT ![controlQubit + 1] = "c"]
                 ELSE gate0
    IN  [gate1 EXCEPT ![targetQubit + 1] = "TG"]

\* A target search that falls back to qubit 0 when no qubit is marked "TG"
FindTargetOrZero(gate, numQubit, i, found) ==
    IF \E q \in 0..(numQubit - 1) : gate[q + 1] = "TG"
    THEN CHOOSE q \in 0..(numQubit - 1) :
             /\ gate[q + 1] = "TG"
             /\ \A r \in (q + 1)..(numQubit - 1) : gate[r + 1] # "TG"
    ELSE 0

\* The target search of func_2.py:116-121: the last qubit marked "TG", or -1.
RECURSIVE FindTarget(_, _, _, _)
FindTarget(gate, numQubit, i, found) ==
    IF i >= numQubit THEN found
    ELSE FindTarget(gate, numQubit, i + 1,
                    IF gate[i + 1] = "TG" THEN i ELSE found)

\* A controlState in which each later qubit becomes the more significant bit
RECURSIVE BuildControlStateReversed(_, _, _, _, _)
BuildControlStateReversed(gate, numQubit, targetQubit, i, controlState) ==
    IF i >= numQubit THEN controlState
    ELSE IF i = targetQubit
         THEN BuildControlStateReversed(gate, numQubit, targetQubit, i + 1,
                                        controlState)
         ELSE LET oneControlState0 == IF gate[i + 1] = "c" THEN 0 ELSE 1
                  newControlState ==
                      [k \in 1..(2 * Len(controlState)) |->
                          IF k <= Len(controlState)
                          THEN controlState[k] * oneControlState0
                          ELSE controlState[k - Len(controlState)]]
              IN  BuildControlStateReversed(gate, numQubit, targetQubit, i + 1,
                                            newControlState)

\* func_2.py:147-156: controlState after the qubits i..numQubit-1, doubled
\* once per non-target qubit; the sequence index is the code's index + 1.
RECURSIVE BuildControlState(_, _, _, _, _)
BuildControlState(gate, numQubit, targetQubit, i, controlState) ==
    IF i >= numQubit THEN controlState
    ELSE IF i = targetQubit
         THEN BuildControlState(gate, numQubit, targetQubit, i + 1, controlState)
         ELSE LET oneControlState0 == IF gate[i + 1] = "c" THEN 0 ELSE 1
                  newControlState ==
                      [k \in 1..(2 * Len(controlState)) |->
                          IF (k - 1) % 2 = 0
                          THEN controlState[((k - 1) \div 2) + 1] * oneControlState0
                          ELSE controlState[((k - 1) \div 2) + 1]]
              IN  BuildControlState(gate, numQubit, targetQubit, i + 1,
                                    newControlState)

\* A pair update whose second assignment reads the first one's result
UpdatePairSequential(amp, i0, i1, t) ==
    LET sv1 == amp[i1]
        new0 == CAdd(CMul(amp[i0], t[1][1]), CMul(sv1, t[1][2]))
    IN  [amp EXCEPT ![i0] = new0,
                    ![i1] = CAdd(CMul(new0, t[2][1]), CMul(sv1, t[2][2]))]

\* One pass of the inner loop body of func_2.py:165-170 on the pair (i0, i1).
UpdatePair(amp, i0, i1, t) ==
    LET sv0 == amp[i0]
        sv1 == amp[i1]
    IN  [amp EXCEPT ![i0] = CAdd(CMul(sv0, t[1][1]), CMul(sv1, t[1][2])),
                    ![i1] = CAdd(CMul(sv0, t[2][1]), CMul(sv1, t[2][2]))]

\* The loops of func_2.py:159-170 and 174-184, taken in the code's order:
\* step k is block i = k \div p, offset j = k % p.
RECURSIVE GateLoop(_, _, _, _, _, _, _)
GateLoop(amp, k, m, p, t, controlbit, controlState) ==
    IF k >= m * p THEN amp
    ELSE LET i == k \div p
             j == k % p
             i0 == i * (2 * p) + j
             i1 == i0 + p
             fire == (~controlbit) \/ controlState[i * p + j + 1] = 1
         IN  GateLoop(IF fire THEN UpdatePair(amp, i0, i1, t) ELSE amp,
                      k + 1, m, p, t, controlbit, controlState)

\* apply_controlled_gate.  The array is changed in place and returned; the
\* callers below write the result back to the object they passed.  A matrix
\* with h = 1 is only applied without controls (it rescales every entry).
apply_controlled_gate(state_vector, gate, targetGateVector, numQubit) ==
    LET targetQubit == FindTarget(gate, numQubit, 0, -1)
    IN  IF targetQubit = -1 THEN state_vector
        ELSE LET n == Pow2(numQubit)
                 m == Pow2(targetQubit)
                 s == n \div m
                 p == s \div 2
                 controlbit == \E q \in 1..numQubit : gate[q] = "c"
                 controlState ==
                     IF controlbit
                     THEN BuildControlState(gate, numQubit, targetQubit, 0, <<1>>)
                     ELSE <<1>>
             IN  [amp |-> GateLoop(state_vector.amp, 0, m, p,
                                   targetGateVector.m, controlbit, controlState),
                  h |-> state_vector.h + targetGateVector.h]

-----------------------------------------------------------------------------
(* Reduced density matrices, Bloch coordinates, scores *)

\* func_2.py:204-218: the sum of state[i0] * conj(state[i1]) over the pairs
\* of qubit i, as a Gaussian integer (the scale 2^(-h) is applied by the caller).
RECURSIVE CoherenceSum(_, _, _, _)
CoherenceSum(amp, k, m, p) ==
    IF k >= m * p THEN <<0, 0>>
    ELSE LET j == k \div p
             i0 == j * (2 * p) + (k % p)
             i1 == i0 + p
         IN  CAdd(CMul(amp[i0], CConj(amp[i1])), CoherenceSum(amp, k + 1, m, p))

\* An occupation sum that tests bit i of the index instead of bit numQubit-i-1
RECURSIVE OccupationSumLowBit(_, _, _, _)
OccupationSumLowBit(amp, k, numQubit, i) ==
    IF k >= Pow2(numQubit) THEN 0
    ELSE (IF (k \div Pow2(i)) % 2 = 0 THEN CAbsSq(amp[k]) ELSE 0)
         + OccupationSumLowBit(amp, k + 1, numQubit, i)

\* func_2.py:221-226: the sum of |state[j]|^2 over the indices j from k on
\* whose bit numQubit-i-1 is 0.
RECURSIVE OccupationSum(_, _, _, _)
OccupationSum(amp, k, numQubit, i) ==
    IF k >= Pow2(numQubit) THEN 0
    ELSE (IF (k \div Pow2(numQubit - i - 1)) % 2 = 0 THEN CAbsSq(amp[k]) ELSE 0)
         + OccupationSum(amp, k + 1, numQubit, i)

\* partical_trace: densityMatrix[i + 1] is the matrix of qubit i.  d00 and
\* d11 are real; d01 and d10 are <<re, im>> with rational parts.
partical_trace(sv, numQubit) ==
    [q \in 1..numQubit |->
        LET i == q - 1
            m == Pow2(i)
            p == (Pow2(numQubit) \div m) \div 2
            scale == Pow2(sv.h)
            matrix(d00, d01) ==
                [d00 |-> d00,
                 d01 |-> d01,
                 d10 |-> <<d01[1], RSub(RInt(0), d01[2])>>,
                 d11 |-> RSub(RInt(1), RAbs(d00))]
            scaled(c, occupation) ==
                matrix(Rat(occupation, scale), <<Rat(c[1], scale), Rat(c[2], scale)>>)
        IN  scaled(CoherenceSum(sv.amp, 0, m, p),
                   OccupationSum(sv.amp, 0, numQubit, i))]

CoordinateCalc(densityMatrix) ==
    LET x == RMul(RInt(2), densityMatrix.d10[1])
        y == RMul(RInt(2), densityMatrix.d10[2])
        z == RSub(RAbs(RMul(RInt(2), densityMatrix.d00)), RInt(1))
    IN  <<x, y, z>>

\* coordinate_calc_input for angles that are multiples of 90 degrees.
SinDeg(a) ==
    CASE a % 360 = 0 -> 0 [] a % 360 = 90 -> 1
      [] a % 360 = 180 -> 0 [] a % 360 = 270 -> -1
CosDeg(a) == SinDeg(a + 90)

coordinate_calc_input(phi, theta, radius) ==
    << RMul(radius, RInt(SinDeg(theta) * CosDeg(phi))),
       RMul(radius, RInt(SinDeg(theta) * SinDeg(phi))),
       RMul(radius, RInt(CosDeg(theta))) >>

SumSquares(c) == RAdd(RAdd(RMul(c[1], c[1]), RMul(c[2], c[2])), RMul(c[3], c[3]))

\* RadiusCalc: the radius of the qubit named first in each entry of targetQubits.
RadiusCalc(densityMatrix, targetQubits) ==
    [k \in 1..Len(targetQubits) |->
        RSqrt(SumSquares(CoordinateCalc(densityMatrix[targetQubits[k][1] + 1])))]

radiusDiff(data1, data2) == RAbs(RSub(data1, data2))

\* The score representation (the square) of a non-negative real.
Score(x) == RMul(x, x)

\* distanceDiff, as a score: the square of the Euclidean distance.
distanceDiff(data1, data2) ==
    SumSquares(<<RSub(data1[1], data2[1]), RSub(data1[2], data2[2]),
                 RSub(data1[3], data2[3])>>)

\* diff_compare on scores: <<updated minimum, whether it was updated>>.
diff_compare(min_d, result_diff) ==
    IF RLess(result_diff, min_d) THEN <<result_diff, TRUE>> ELSE <<min_d, FALSE>>

-----------------------------------------------------------------------------
(* Entanglement order planner.  A data entry is <<qubit index, radius>>;     *)
(* position k of a Python list is position k + 1 of the sequence.            *)

\* 1 - 1e-5 (func_2.py:584)
OneMinusEps == <<99999, 100000>>

\* Faulty variant: the last radius is left out of the product.
RECURSIVE RadiusProductShort(_, _)
RadiusProductShort(data, k) ==
    IF k >= Len(data) THEN RInt(1)
    ELSE RMul(data[k][2], RadiusProductShort(data, k + 1))

RECURSIVE RadiusProduct(_, _)
RadiusProduct(data, k) ==
    IF k > Len(data) THEN RInt(1)
    ELSE RMul(data[k][2], RadiusProduct(data, k + 1))

\* Faulty variant: an error also when the product equals the smallest radius.
radius_inspect_leq(sorted_data) ==
    LET judged(min_radius) ==
            IF Len(sorted_data) = 1 \/ RLeq(sorted_data[1][2], min_radius)
            THEN <<sorted_data[1], min_radius, FALSE>>
            ELSE <<sorted_data[1], min_radius, TRUE>>
    IN  judged(RadiusProduct(sorted_data, 2))

\* Faulty variant: every list of two or more entries passes.
radius_inspect_any(sorted_data) ==
    LET judged(min_radius) ==
            IF Len(sorted_data) = 1
            THEN <<sorted_data[1], min_radius, FALSE>>
            ELSE <<sorted_data[1], min_radius, TRUE>>
    IN  judged(RadiusProduct(sorted_data, 2))

\* radius_inspect: <<smallest entry, product of the other radii, flag>>
radius_inspect(sorted_data) ==
    LET judged(min_radius) ==
            IF Len(sorted_data) = 1 \/ RLess(sorted_data[1][2], min_radius)
            THEN <<sorted_data[1], min_radius, FALSE>>
            ELSE <<sorted_data[1], min_radius, TRUE>>
    IN  judged(RadiusProduct(sorted_data, 2))

\* Faulty variant: every qubit is taken, whatever its radius.
RECURSIVE RadiusIndexAll(_, _)
RadiusIndexAll(target_radius, k) ==
    IF k > Len(target_radius) THEN <<>>
    ELSE << <<k - 1, target_radius[k]>> >> \o RadiusIndexAll(target_radius, k + 1)

\* Faulty variant: qubits are numbered from 1.
RECURSIVE RadiusIndexOneBased(_, _)
RadiusIndexOneBased(target_radius, k) ==
    IF k > Len(target_radius) THEN <<>>
    ELSE (IF RLess(target_radius[k], OneMinusEps)
          THEN << <<k, target_radius[k]>> >> ELSE <<>>)
         \o RadiusIndexOneBased(target_radius, k + 1)

\* func_2.py:583-586: the entries below the threshold, in qubit order
RECURSIVE RadiusIndex(_, _)
RadiusIndex(target_radius, k) ==
    IF k > Len(target_radius) THEN <<>>
    ELSE (IF RLess(target_radius[k], OneMinusEps)
          THEN << <<k - 1, target_radius[k]>> >> ELSE <<>>)
         \o RadiusIndex(target_radius, k + 1)

\* np.argsort on at most 16 keys is an insertion sort: ascending, equal
\* radii kept in their original order.
RECURSIVE InsertByRadius(_, _)
InsertByRadius(e, sorted) ==
    IF sorted = <<>> THEN <<e>>
    ELSE IF RLess(e[2], sorted[1][2]) THEN <<e>> \o sorted
         ELSE <<sorted[1]>> \o InsertByRadius(e, Tail(sorted))

RECURSIVE SortByRadius(_)
SortByRadius(data) ==
    IF data = <<>> THEN <<>>
    ELSE InsertByRadius(data[Len(data)], SortByRadius(SubSeq(data, 1, Len(data) - 1)))

\* Faulty variant: the error list carries the number of qubits in place of
\* the number of entangled qubits.
radius_judge_count(numQubit, target_radius) ==
    LET inspected(sorted_data, result) ==
            IF ~result[3]
            THEN [tag |-> "radiusError",
                  data |-> <<"radiusError", numQubit, result[1], result[2]>>]
            ELSE [tag |-> "sorted", data |-> sorted_data]
        sorted(sorted_data) == inspected(sorted_data, radius_inspect(sorted_data))
        counted(radius_index) ==
            IF Len(radius_index) = 0 THEN [tag |-> "sorted", data |-> <<>>]
            ELSE sorted(SortByRadius(radius_index))
    IN  counted(RadiusIndex(target_radius, 1))

\* radius_judge: [tag |-> "sorted", data] (data = <<>> when no qubit needs
\* entanglement) or [tag |-> "radiusError", data |-> the error list].
radius_judge(numQubit, target_radius) ==
    LET inspected(count, sorted_data, result) ==
            IF ~result[3]
            THEN [tag |-> "radiusError",
                  data |-> <<"radiusError", count, result[1], result[2]>>]
            ELSE [tag |-> "sorted", data |-> sorted_data]
        sorted(count, sorted_data) ==
            inspected(count, sorted_data, radius_inspect(sorted_data))
        counted(radius_index) ==
            IF Len(radius_index) = 0 THEN [tag |-> "sorted", data |-> <<>>]
            ELSE sorted(Len(radius_index), SortByRadius(radius_index))
    IN  counted(RadiusIndex(target_radius, 1))

calc_order_2(sorted_data) ==
    << <<sorted_data[1][1], sorted_data[1][2]>>,
       <<sorted_data[2][1], sorted_data[2][2]>> >>

\* The loop of calc_order_1 (func_2.py:526-552) from step i on.  A division
\* by zero raises ZeroDivisionError: [exc |-> TRUE].
RECURSIVE CalcOrder1Loop(_, _, _, _, _, _)
CalcOrder1Loop(A, sorted_data, i, A1, min_radius0, order) ==
    IF i >= Len(sorted_data) THEN [exc |-> FALSE, order |-> order]
    ELSE
      LET ri == sorted_data[i + 1][2]
          r0 == sorted_data[1][2]
          raised == [exc |-> TRUE, order |-> order]
          \* lines 548-552: radius_2 and the entry appended to order
          appended(min_radius, newA1) ==
              IF RIsZero(newA1) THEN raised
              ELSE CalcOrder1Loop(A, sorted_data, i + 1, newA1, min_radius,
                       Append(order,
                           << <<sorted_data[i + 1][1], ri>>,
                              <<sorted_data[1][1],
                                RMul(RDiv(A, newA1), min_radius)>> >>))
          \* lines 546-547: A0, then A1 = A1 / A0
          updated(min_radius, A0) ==
              IF RIsZero(A0) THEN raised
              ELSE appended(min_radius, RDiv(A1, A0))
          \* lines 538-544: ave_radius_position and x
          positioned(min_radius, t, span, average_radius) ==
              IF RIsZero(span) THEN raised
              ELSE updated(min_radius,
                       RAdd(RInt(1),
                            RMul(RSub(A1, RInt(1)),
                                 IF i = 1 THEN RInt(0)
                                 ELSE RDiv(RSub(average_radius, t), span))))
          \* lines 531-537: result_radius_min, result_radius_max, their mean
          ranged(min_radius, max_radius, t, u) ==
              positioned(min_radius, t, RSub(max_radius, t),
                  RDiv(RAdd(IF RLess(t, r0) THEN r0 ELSE t,
                            IF RLess(max_radius, u) THEN max_radius ELSE u),
                       RInt(2)))
          \* t is min_radius * A / A1
          scaled(min_radius, max_radius, t) ==
              ranged(min_radius, max_radius, t, RDiv(t, ri))
          \* lines 527-528: min_radius and max_radius
          stepped(min_radius) ==
              scaled(min_radius, RMul(min_radius, A),
                     RDiv(RMul(min_radius, A), A1))
      IN  IF RIsZero(A1) \/ RIsZero(ri) THEN raised
          ELSE stepped(RMul(min_radius0, ri))

\* calc_order_1 on array_data = <<A, group entries>>
calc_order_1(array_data) ==
    LET A == array_data[1]
        sorted_data == array_data[2]
    IN  IF Len(sorted_data) = 2
        THEN [exc |-> FALSE,
              order |-> << << <<sorted_data[2][1], sorted_data[2][2]>>,
                              <<sorted_data[1][1], sorted_data[1][2]>> >> >>]
        ELSE CalcOrder1Loop(A, sorted_data, 1, A, RInt(1), <<>>)

\* The group search of add_order (func_2.py:435-453) from list position i
\* on.  sc holds the loop's variables; sc.stop is the break of line 451.
RECURSIVE ScanGroup(_, _, _, _, _)
ScanGroup(sorted_data, mask, idx, i, sc) ==
    IF i >= Len(sorted_data) \/ sc.stop THEN sc
    ELSE IF mask[i + 1] # 0 THEN ScanGroup(sorted_data, mask, idx, i + 1, sc)
    ELSE
      LET start == IF sc.judge THEN sc.maltiply_radius ELSE sc.new_maltiply_radius
          new_maltiply_radius == RMul(start, sorted_data[i + 1][2])
      IN  IF RLeq(new_maltiply_radius, sorted_data[idx + 1][2])
          THEN ScanGroup(sorted_data, mask, idx, i + 1,
                   [sc EXCEPT !.new_maltiply_radius = new_maltiply_radius,
                              !.last_data = i, !.judge = TRUE])
          ELSE IF sc.judge
               THEN [sc EXCEPT !.new_maltiply_radius = new_maltiply_radius,
                               !.stop = TRUE]
               ELSE ScanGroup(sorted_data, mask, idx, i + 1,
                        [sc EXCEPT !.new_maltiply_radius = new_maltiply_radius,
                                   !.maltiply_radius = new_maltiply_radius,
                                   !.new_mask = Append(@, i)])

FirstUnmarked(mask) == CHOOSE k \in 0..(Len(mask) - 1) :
    mask[k + 1] = 0 /\ \A j \in 0..(k - 1) : mask[j + 1] # 0

\* The entries of sorted_data whose mark satisfies keep, in list order
RECURSIVE MarkedEntries(_, _, _, _)
MarkedEntries(sorted_data, mask, marks, k) ==
    IF k > Len(sorted_data) THEN <<>>
    ELSE (IF mask[k] \in marks THEN <<sorted_data[k]>> ELSE <<>>)
         \o MarkedEntries(sorted_data, mask, marks, k + 1)

\* func_2.py:468-470: every entry marked 0 or count, paired with the entry
\* before it in the list (the entry before position 0 is the last one).
RECURSIVE IndividualPairs(_, _, _, _)
IndividualPairs(sorted_data, mask, count, i) ==
    IF i >= Len(sorted_data) THEN <<>>
    ELSE (IF mask[i + 1] = 0 \/ mask[i + 1] = count
          THEN << <<sorted_data[IF i = 0 THEN Len(sorted_data) ELSE i],
                    sorted_data[i + 1]>> >>
          ELSE <<>>)
         \o IndividualPairs(sorted_data, mask, count, i + 1)

\* The while loop of add_order (func_2.py:420-475), one pass per call.
\* Result: [exc, result_array, result_array_2, passes].
RECURSIVE AddOrderLoop(_, _, _, _, _)
AddOrderLoop(sorted_data, mask0, count0, result_array, result_array_2) ==
    LET count == count0 + 1
        idx == FirstUnmarked(mask0)
        mask == [mask0 EXCEPT ![idx + 1] = count]
        \* lines 464-465 and 474-475: the group is recorded with its
        \* coefficient; the loop ends when every entry is marked
        recorded(marked, grown) ==
            IF \A k \in 1..Len(marked) : marked[k] # 0
            THEN [exc |-> FALSE, result_array |-> grown,
                  result_array_2 |-> result_array_2, passes |-> count]
            ELSE AddOrderLoop(sorted_data, marked, count, grown, result_array_2)
        grouped(maltiply_radius, marked) ==
            IF RIsZero(maltiply_radius)
            THEN [exc |-> TRUE, result_array |-> result_array,
                  result_array_2 |-> result_array_2, passes |-> count]
            ELSE recorded(marked,
                     Append(result_array,
                         << RDiv(sorted_data[idx + 1][2], maltiply_radius),
                            MarkedEntries(sorted_data, marked, {count}, 1) >>))
        \* lines 455-460: the last member joins the group and is marked
        joined(maltiply_radius, new_mask) ==
            grouped(maltiply_radius,
                    [k \in 1..Len(mask) |->
                        IF \E g \in 1..Len(new_mask) : new_mask[g] = k - 1
                        THEN count ELSE mask[k]])
        scanned(sc) ==
            IF sc.judge
            THEN joined(RMul(sc.maltiply_radius, sorted_data[sc.last_data + 1][2]),
                        Append(sc.new_mask, sc.last_data))
            ELSE [exc |-> FALSE, result_array |-> result_array,
                  result_array_2 |-> result_array_2
                      \o IndividualPairs(sorted_data, mask, count, 0),
                  passes |-> count]
    IN  scanned(ScanGroup(sorted_data, mask, idx, 0,
                    [judge |-> FALSE, maltiply_radius |-> RInt(1),
                     new_maltiply_radius |-> RInt(1), new_mask |-> <<>>,
                     last_data |-> -1, stop |-> FALSE]))

\* func_2.py:478-479: order.extend(calc_order_1(data)) for each group
RECURSIVE ExtendOrder1(_, _)
ExtendOrder1(result_array, k) ==
    LET extended(one, rest) ==
            [exc |-> one.exc \/ rest.exc, order |-> one.order \o rest.order]
    IN  IF k > Len(result_array) THEN [exc |-> FALSE, order |-> <<>>]
        ELSE extended(calc_order_1(result_array[k]),
                      ExtendOrder1(result_array, k + 1))

\* add_order: [exc |-> TRUE] when it raises ZeroDivisionError, else the
\* order, a sequence of steps << <<qubit A, radius>>, <<qubit B, radius>> >>.
add_order(sorted_data) ==
    LET ordered(loop, first) ==
            IF loop.exc \/ first.exc THEN [exc |-> TRUE, order |-> <<>>]
            ELSE [exc |-> FALSE,
                  order |-> first.order
                      \o [k \in 1..Len(loop.result_array_2) |->
                             calc_order_2(loop.result_array_2[k])]]
        looped(loop) == ordered(loop, ExtendOrder1(loop.result_array, 1))
    IN  looped(AddOrderLoop(sorted_data, [k \in 1..Len(sorted_data) |-> 0], 0,
                            <<>>, <<>>))

-----------------------------------------------------------------------------
(* Inputs of a run *)

\* A table entry is <<label, matrix>>: data[0] and data[1] of the code.
CandI == << <<>>, MatI >>
CandH == << <<"H">>, MatH >>
CandX == << <<"X">>, X >>
CandidateList == <<CandI, CandH, CandX>>

Min(a, b) == IF a < b THEN a ELSE b
Prefix(list, k) == SubSeq(list, 1, Min(k, Len(list)))

RadiusValues == {<<0, 1>>, <<1, 2>>, <<7, 10>>, <<1, 1>>}

\* Target direction (phi, theta) in degrees, the same for every qubit of a run
TargetAngles == {<<0, 0>>, <<0, 180>>}

-----------------------------------------------------------------------------
(* numpy arrays: the heap *)

ObjIds == 0..5
CallerArray == 0

Alloc(h) == CHOOSE o \in ObjIds : h[o] = NoArray /\ \A x \in 0..(o - 1) : h[x] # NoArray

\* Faulty variant: no copy is made, the same object is handed back.
CopyArrayAlias(h, r) == <<h, r>>

\* ndarray.copy(): <<heap with a new object holding the contents of r, its id>>
CopyArray(h, r) ==
    LET o == Alloc(h) IN <<[h EXCEPT ![o] = h[r]], o>>

\* apply_controlled_gate on the object r: the array is updated in place
\* (func_2.py:169-170, 183-184) and the same object is returned.
ApplyInPlace(h, r, gate, targetGateVector, numQubit) ==
    [h EXCEPT ![r] = apply_controlled_gate(h[r], gate, targetGateVector, numQubit)]

\* Objects no name refers to any more are freed.
Collect(h, refs) == [o \in ObjIds |-> IF o \in refs \cup {CallerArray} THEN h[o] ELSE NoArray]

-----------------------------------------------------------------------------
(* mainCalc *)

NoRecord == <<>>
NoReturn == [kind |-> "running", value |-> <<>>]
Returned(gates, final) == [kind |-> "returned", value |-> <<gates, final>>]
Raised(exc) == [kind |-> "raised", value |-> exc]

\* Faulty variant: the callback's answer is ignored.
AfterCallbackIgnored(reply, proceed) == [pc |-> proceed, ret |-> NoReturn]

\* Faulty variant: a loop over a table stops after its first entry.
NextCandidateOnce(idx, table, again, finished) == finished

\* func_2.py:678-679 and 725-726: what follows the callback's answer.  A
\* false answer makes mainCalc return (False, False) immediately.
AfterCallback(reply, proceed) ==
    IF reply THEN [pc |-> proceed, ret |-> NoReturn]
    ELSE [pc |-> "done", ret |-> Returned(FALSE, FALSE)]

\* The for loops over a table (func_2.py:670, 673, 721): after position
\* index the loop goes on to the next entry, or is finished.
NextCandidate(idx, table, again, finished) ==
    IF idx + 1 < Len(table) THEN again ELSE finished

\* func_2.py:633-635
FirstInsideStep == 3
FirstOutsideStep == 1
SecondStep == 2

numQubit == Len(args.target_coordinates)

\* func_2.py:637-639
TotalCalcStep(json_short, json_long, order, n) ==
    Len(order) * (Len(json_short) * (FirstOutsideStep + Len(json_short) * FirstInsideStep))
    + n * (SecondStep * Len(json_long))

\* func_2.py:637-652, for a non-zero totalCalcStep
ProgressConstants(json_short, json_long, order, n) ==
    LET FirstStep == Len(json_short) * (FirstOutsideStep + Len(json_short) * FirstInsideStep)
        SecondOutsideStep == SecondStep * Len(json_long)
        totalCalcStep == TotalCalcStep(json_short, json_long, order, n)
    IN  [totalCalcStep |-> totalCalcStep,
         FirstInsideOneProgress |-> Rat(FirstInsideStep * 100, totalCalcStep),
         FirstOutsideOneProgress |->
             Rat((FirstOutsideStep + Len(json_short) * FirstInsideStep) * 100,
                 totalCalcStep),
         FirstOneProgress |-> Rat(FirstStep * 100, totalCalcStep),
         FirstProgress |-> Rat(Len(order) * FirstStep * 100, totalCalcStep),
         SecondOneProgress |-> Rat(SecondStep * 100, totalCalcStep),
         SecondOutsideOneProgress |-> Rat(SecondOutsideStep * 100, totalCalcStep)]

\* func_2.py:676-677
Phase1Progress(c, n, i1, i2) ==
    RAdd(RAdd(RMul(c.FirstOneProgress, RInt(n)),
              RMul(c.FirstOutsideOneProgress, RInt(i1))),
         RMul(c.FirstInsideOneProgress, RInt(i2)))

\* Faulty variant: Phase 2 progress restarts from zero.
Phase2ProgressNoOffset(c, i, idx) ==
    RAdd(RMul(c.SecondOutsideOneProgress, RInt(i)),
         RMul(c.SecondOneProgress, RInt(idx)))

\* func_2.py:724
Phase2Progress(c, i, idx) ==
    RAdd(RAdd(c.FirstProgress, RMul(c.SecondOutsideOneProgress, RInt(i))),
         RMul(c.SecondOneProgress, RInt(idx)))

\* mainCalc's locals on entry (func_2.py:620-623); nothing else is bound yet
InitLocals ==
    /\ result_state = CallerArray
    /\ state = Unbound
    /\ data_1_state = Unbound
    /\ calc_order = <<>>
    /\ progressConst = <<>>
    /\ min_diff = RInt(0)
    /\ num = 0 /\ index_1 = 0 /\ index_2 = 0 /\ qubit_i = 0 /\ index = 0
    /\ gate_array = <<>>
    /\ gate_array_result_1 = NoRecord
    /\ gate_array_result_2 = NoRecord
    /\ gate_array_result = NoRecord
    /\ ret = NoReturn
    /\ callback = [calls |-> 0, last |-> RInt(0), reply |-> TRUE]
    /\ evaluated = 0

\* mainQuantum.py:42-54: no user is known and no thread has been started
NoThread == [pc |-> "unborn", count |-> 0]
MaxRequests == 3

InitWeb ==
    /\ thread_stop_flags = [u \in {} |-> FALSE]
    /\ threads = [t \in 1..MaxRequests |-> NoThread]
    /\ handler = [pc |-> "idle", started |-> 0]

\* The caller's array: every qubit in |0>
InitialHeap(n) ==
    [o \in ObjIds |->
        IF o = CallerArray THEN calc_initialize_state([q \in 1..n |-> <<0, 0>>])
        ELSE NoArray]

Init ==
    \E n \in 1..MaxQubits, s \in 0..MaxShort, l \in 0..MaxLong, angle \in TargetAngles :
      \E radii \in [1..n -> RadiusValues] :
        /\ args = [json_long |-> Prefix(CandidateList, l),
                   json_short |-> Prefix(CandidateList, s),
                   target_coordinates |->
                       [q \in 1..n |-> coordinate_calc_input(angle[1], angle[2], radii[q])],
                   target_radius |-> radii]
        /\ heap = InitialHeap(n)
        /\ pc = "start"
        /\ InitLocals
        /\ InitWeb
        /\ probe = <<>>

\* func_2.py:620-652: planning and the progress coefficients
Plan ==
    /\ pc = "start"
    /\ \E sorted_data \in {radius_judge(numQubit, args.target_radius)} :
       \E planned \in {IF sorted_data.tag = "sorted" /\ Len(sorted_data.data) # 0
                        THEN add_order(sorted_data.data)
                        ELSE [exc |-> FALSE, order |-> <<>>]} :
       \E total \in {TotalCalcStep(args.json_short, args.json_long,
                                    planned.order, numQubit)} :
           IF sorted_data.tag = "radiusError"
           THEN /\ ret' = Returned(sorted_data.data, <<>>)
                /\ pc' = "done"
                /\ UNCHANGED <<calc_order, progressConst>>
           ELSE IF planned.exc \/ total = 0
           THEN /\ ret' = Raised("ZeroDivisionError")
                /\ pc' = "done"
                /\ UNCHANGED <<calc_order, progressConst>>
           ELSE /\ calc_order' = planned.order
                /\ progressConst' = ProgressConstants(args.json_short, args.json_long,
                                                      planned.order, numQubit)
                /\ pc' = IF Len(planned.order) # 0 THEN "p1_step" ELSE "p2_step"
                /\ ret' = ret
    /\ UNCHANGED <<args, heap, result_state, state, data_1_state, min_diff, num,
                   index_1, index_2, qubit_i, index, gate_array,
                   gate_array_result_1, gate_array_result_2, gate_array_result,
                   callback, evaluated, probe>>
    /\ UNCHANGED webVars

\* The order step being searched and its qubits (func_2.py:659-662)
Order == calc_order[num + 1]
targetQubit_1 == Order[1][1]
targetQubit_2 == Order[2][1]

Live(rs, st, d1) == {rs, st, d1} \ {Unbound}

\* func_2.py:659-667: the start of one order step
P1Step ==
    /\ pc = "p1_step"
    /\ min_diff' = RInt(2 * 2)
    /\ index_1' = 0
    /\ pc' = IF Len(args.json_short) # 0 THEN "p1_outer" ELSE "p1_commit"
    /\ UNCHANGED <<args, heap, result_state, state, data_1_state, calc_order,
                   progressConst, num, index_2, qubit_i, index, gate_array,
                   gate_array_result_1, gate_array_result_2, gate_array_result,
                   ret, callback, evaluated, probe>>
    /\ UNCHANGED webVars

\* func_2.py:670-672: the first gate on a copy of the committed state
P1Outer ==
    /\ pc = "p1_outer"
    /\ \E data_1 \in {args.json_short[index_1 + 1]} :
       \E gate_1 \in {CreateGateArray(numQubit, targetQubit_1, -1)} :
       \E c \in {CopyArray(heap, result_state)} :
       \E h \in {ApplyInPlace(c[1], c[2], gate_1, data_1[2], numQubit)} :
           /\ data_1_state' = c[2]
           /\ heap' = Collect(h, Live(result_state, state, c[2]))
    /\ index_2' = 0
    /\ pc' = "p1_call"
    /\ UNCHANGED <<args, result_state, state, calc_order, progressConst, min_diff,
                   num, index_1, qubit_i, index, gate_array, gate_array_result_1,
                   gate_array_result_2, gate_array_result, ret, callback,
                   evaluated, probe>>
    /\ UNCHANGED webVars

\* func_2.py:674-679: the callback is told the progress; False ends the run
P1Call ==
    /\ pc = "p1_call"
    /\ \E reply \in BOOLEAN :
         /\ callback' = [calls |-> callback.calls + 1,
                         last |-> Phase1Progress(progressConst, num, index_1, index_2),
                         reply |-> reply]
         /\ pc' = AfterCallback(reply, "p1_eval").pc
         /\ ret' = AfterCallback(reply, "p1_eval").ret
    /\ UNCHANGED <<args, heap, result_state, state, data_1_state, calc_order,
                   progressConst, min_diff, num, index_1, index_2, qubit_i, index,
                   gate_array, gate_array_result_1, gate_array_result_2,
                   gate_array_result, evaluated, probe>>
    /\ UNCHANGED webVars

\* func_2.py:693-694: the mean radius error of the two qubits of a step
Phase1Diff(radius, order) ==
    RDiv(RAdd(radiusDiff(radius[1], order[1][2]), radiusDiff(radius[2], order[2][2])),
         RInt(2))

\* func_2.py:681-701: one candidate pair is evaluated and compared
P1Eval ==
    /\ pc = "p1_eval"
    /\ \E data_1 \in {args.json_short[index_1 + 1]} :
       \E data_2 \in {args.json_short[index_2 + 1]} :
       \E gate_2 \in {CreateGateArray(numQubit, targetQubit_2, -1)} :
       \E ControlGate \in {CreateGateArray(numQubit, targetQubit_2, targetQubit_1)} :
       \E c \in {CopyArray(heap, data_1_state)} :
       \E data_2_state \in {c[2]} :
       \E h2 \in {ApplyInPlace(c[1], data_2_state, gate_2, data_2[2], numQubit)} :
       \E new_state \in {data_2_state} :
       \E h3 \in {ApplyInPlace(h2, new_state, ControlGate, X, numQubit)} :
       \E densityMatrix \in {partical_trace(h3[new_state], numQubit)} :
       \E radius \in {RadiusCalc(densityMatrix, Order)} :
       \E result_diff \in {Score(Phase1Diff(radius, Order))} :
       \E cmp \in {diff_compare(min_diff, result_diff)} :
       \E kept \in {CopyArray(h3, new_state)} :
           /\ min_diff' = cmp[1]
           /\ IF cmp[2]
              THEN /\ state' = kept[2]
                   /\ heap' = Collect(kept[1], Live(result_state, kept[2], data_1_state))
                   /\ gate_array_result_1' = <<data_1[1], targetQubit_1>>
                   /\ gate_array_result_2' = <<data_2[1], targetQubit_2>>
              ELSE /\ heap' = Collect(h3, Live(result_state, state, data_1_state))
                   /\ UNCHANGED <<state, gate_array_result_1, gate_array_result_2>>
    /\ evaluated' = evaluated + 1
    /\ IF NextCandidate(index_2, args.json_short, TRUE, FALSE)
       THEN index_2' = index_2 + 1 /\ pc' = "p1_call" /\ index_1' = index_1
       ELSE /\ index_2' = index_2
            /\ index_1' = index_1 + 1
            /\ pc' = NextCandidate(index_1, args.json_short, "p1_outer", "p1_commit")
    /\ UNCHANGED <<args, result_state, data_1_state, calc_order, progressConst, num,
                   qubit_i, index, gate_array, gate_array_result, ret, callback,
                   probe>>
    /\ UNCHANGED webVars

\* func_2.py:703-709: the best state is committed, three records appended
P1Commit ==
    /\ pc = "p1_commit"
    /\ IF state = Unbound
       THEN /\ ret' = Raised("UnboundLocalError")
            /\ pc' = "done"
            /\ UNCHANGED <<heap, result_state, gate_array, num>>
       ELSE \E c \in {CopyArray(heap, state)} :
            \E gate_array_result_3 \in {<< <<"cnot">>, targetQubit_2 >>} :
                /\ result_state' = c[2]
                /\ heap' = Collect(c[1], Live(c[2], state, data_1_state))
                /\ gate_array' = gate_array \o <<gate_array_result_1,
                                                 gate_array_result_2,
                                                 gate_array_result_3>>
                /\ num' = num + 1
                /\ pc' = IF num + 1 < Len(calc_order) THEN "p1_step" ELSE "p2_step"
                /\ ret' = ret
    /\ UNCHANGED <<args, state, data_1_state, calc_order, progressConst, min_diff,
                   index_1, index_2, qubit_i, index, gate_array_result_1,
                   gate_array_result_2, gate_array_result, callback, evaluated,
                   probe>>
    /\ UNCHANGED webVars

\* func_2.py:717-719: the start of the search for qubit i
P2Step ==
    /\ pc = "p2_step"
    /\ min_diff' = RInt(2 * 2)
    /\ index' = 0
    /\ pc' = IF Len(args.json_long) # 0 THEN "p2_call" ELSE "p2_commit"
    /\ UNCHANGED <<args, heap, result_state, state, data_1_state, calc_order,
                   progressConst, num, index_1, index_2, qubit_i, gate_array,
                   gate_array_result_1, gate_array_result_2, gate_array_result,
                   ret, callback, evaluated, probe>>
    /\ UNCHANGED webVars

\* func_2.py:722-726
P2Call ==
    /\ pc = "p2_call"
    /\ \E reply \in BOOLEAN :
         /\ callback' = [calls |-> callback.calls + 1,
                         last |-> Phase2Progress(progressConst, qubit_i, index),
                         reply |-> reply]
         /\ pc' = AfterCallback(reply, "p2_eval").pc
         /\ ret' = AfterCallback(reply, "p2_eval").ret
    /\ UNCHANGED <<args, heap, result_state, state, data_1_state, calc_order,
                   progressConst, min_diff, num, index_1, index_2, qubit_i, index,
                   gate_array, gate_array_result_1, gate_array_result_2,
                   gate_array_result, evaluated, probe>>
    /\ UNCHANGED webVars

\* func_2.py:728-740: one long-table candidate is evaluated and compared
P2Eval ==
    /\ pc = "p2_eval"
    /\ \E data \in {args.json_long[index + 1]} :
       \E gate \in {CreateGateArray(numQubit, qubit_i, -1)} :
       \E c \in {CopyArray(heap, result_state)} :
       \E new_state \in {c[2]} :
       \E h \in {ApplyInPlace(c[1], new_state, gate, data[2], numQubit)} :
       \E densityMatrix \in {partical_trace(h[new_state], numQubit)} :
       \E new_coordinate \in {CoordinateCalc(densityMatrix[qubit_i + 1])} :
       \E result_diff \in {distanceDiff(new_coordinate,
                                         args.target_coordinates[qubit_i + 1])} :
       \E cmp \in {diff_compare(min_diff, result_diff)} :
       \E kept \in {CopyArray(h, new_state)} :
           /\ min_diff' = cmp[1]
           /\ IF cmp[2]
              THEN /\ state' = kept[2]
                   /\ heap' = Collect(kept[1], Live(result_state, kept[2], data_1_state))
                   /\ gate_array_result' = <<data[1], qubit_i>>
              ELSE /\ heap' = Collect(h, Live(result_state, state, data_1_state))
                   /\ UNCHANGED <<state, gate_array_result>>
    /\ evaluated' = evaluated + 1
    /\ index' = index + 1
    /\ pc' = NextCandidate(index, args.json_long, "p2_call", "p2_commit")
    /\ UNCHANGED <<args, result_state, data_1_state, calc_order, progressConst, num,
                   index_1, index_2, qubit_i, gate_array, gate_array_result_1,
                   gate_array_result_2, ret, callback, probe>>
    /\ UNCHANGED webVars

\* func_2.py:742-749: the best state is committed and its record appended;
\* after the last qubit the gate list and the final state are returned
P2Commit ==
    /\ pc = "p2_commit"
    /\ IF state = Unbound \/ gate_array_result = NoRecord
       THEN /\ ret' = Raised("UnboundLocalError")
            /\ pc' = "done"
            /\ UNCHANGED <<heap, result_state, gate_array, qubit_i>>
       ELSE \E c \in {CopyArray(heap, state)} :
            \E collected \in {Collect(c[1], Live(c[2], state, data_1_state))} :
            \E appended \in {Append(gate_array, gate_array_result)} :
                /\ result_state' = c[2]
                /\ heap' = collected
                /\ gate_array' = appended
                /\ qubit_i' = qubit_i + 1
                /\ IF qubit_i + 1 < numQubit
                   THEN pc' = "p2_step" /\ ret' = ret
                   ELSE pc' = "done" /\ ret' = Returned(appended, collected[c[2]])
    /\ UNCHANGED <<args, state, data_1_state, calc_order, progressConst, min_diff,
                   num, index_1, index_2, index, gate_array_result_1,
                   gate_array_result_2, gate_array_result, callback, evaluated,
                   probe>>
    /\ UNCHANGED webVars

Next ==
    \/ Plan
    \/ P1Step
    \/ P1Outer
    \/ P1Call
    \/ P1Eval
    \/ P1Commit
    \/ P2Step
    \/ P2Call
    \/ P2Eval
    \/ P2Commit

Spec == Init /\ [][Next]_vars

\* Runs whose targets make an entangling pair the best one: the radius 1/4
\* is nearer to the radius 0 of a Bell pair than to the radius 1 of a product
\* state.  The tables are not empty.
PhaseRadii == {<<1, 4>>, <<1, 2>>, <<1, 1>>}

InitPhases ==
    \E n \in 1..MaxQubits, s \in 1..MaxShort, l \in 1..MaxLong :
      \E radii \in [1..n -> PhaseRadii] :
        /\ args = [json_long |-> Prefix(CandidateList, l),
                   json_short |-> Prefix(CandidateList, s),
                   target_coordinates |->
                       [q \in 1..n |-> coordinate_calc_input(0, 0, radii[q])],
                   target_radius |-> radii]
        /\ heap = InitialHeap(n)
        /\ pc = "start"
        /\ InitLocals
        /\ InitWeb
        /\ probe = <<>>

SpecPhases == InitPhases /\ [][Next]_vars

-----------------------------------------------------------------------------
(* The planner's functions applied on their own *)

ProbeRadii == {<<0, 1>>, <<1, 2>>, <<7, 10>>, <<9, 10>>, <<19, 20>>, <<1, 1>>}

\* Every qubit with its radius, in qubit order
AllEntries(target_radius) == [k \in 1..Len(target_radius) |-> <<k - 1, target_radius[k]>>]

InitPlanner ==
    \E n \in 1..MaxQubits :
      \E radii \in [1..n -> ProbeRadii] :
        /\ args = [json_long |-> <<>>, json_short |-> <<>>,
                   target_coordinates |->
                       [q \in 1..n |-> coordinate_calc_input(0, 0, radii[q])],
                   target_radius |-> radii]
        /\ heap = InitialHeap(n)
        /\ pc = "probe"
        /\ InitLocals
        /\ InitWeb
        /\ probe = [fn |-> "", input |-> <<>>, result |-> <<>>]

ProbeUnchanged ==
    UNCHANGED <<pc, args, heap, result_state, state, data_1_state, calc_order,
                progressConst, min_diff, num, index_1, index_2, qubit_i, index,
                gate_array, gate_array_result_1, gate_array_result_2,
                gate_array_result, ret, callback, evaluated,
                thread_stop_flags, threads, handler>>

\* radius_inspect on the ascending list of all entries
ProbeRadiusInspect ==
    /\ pc = "probe" /\ probe.fn = ""
    /\ \E sorted_data \in {SortByRadius(AllEntries(args.target_radius))} :
         probe' = [fn |-> "radius_inspect", input |-> sorted_data,
                   result |-> radius_inspect(sorted_data)]
    /\ ProbeUnchanged

\* radius_judge on the target radii
ProbeRadiusJudge ==
    /\ pc = "probe" /\ probe.fn = ""
    /\ probe' = [fn |-> "radius_judge", input |-> args.target_radius,
                 result |-> radius_judge(numQubit, args.target_radius)]
    /\ ProbeUnchanged

NextPlanner ==
    \/ ProbeRadiusInspect
    \/ ProbeRadiusJudge

SpecPlanner == InitPlanner /\ [][NextPlanner]_vars

-----------------------------------------------------------------------------
(* apply_controlled_gate applied on its own *)

\* A matrix with four different entries, so that a misplaced or repeated pair
\* update shows in the amplitudes
MatM == [m |-> << << <<1, 0>>, <<0, 1>> >>, << <<2, 0>>, <<1, 1>> >> >>, h |-> 0]

ProbeMatrices == {X, MatM}

\* State vectors of numQubit qubits whose amplitudes are pairwise different
ProbeVectors(n) ==
    { [amp |-> [j \in 0..(Pow2(n) - 1) |-> <<j + 1, 0>>], h |-> 0],
      [amp |-> [j \in 0..(Pow2(n) - 1) |-> <<j % 3, 2 * j - 1>>], h |-> 0] }

\* Every assignment of the roles '', 'c' and 'TG' to the qubits
GateDescriptors(n) == [1..n -> {"", "c", "TG"}]

InitGate ==
    \E n \in 1..MaxQubits :
      \E gate \in GateDescriptors(n), targetGateVector \in ProbeMatrices,
         state_vector \in ProbeVectors(n) :
        /\ args = [json_long |-> <<>>, json_short |-> <<>>,
                   target_coordinates |-> [q \in 1..n |-> <<0, 0>>],
                   target_radius |-> [q \in 1..n |-> <<1, 1>>]]
        /\ heap = InitialHeap(n)
        /\ pc = "probe"
        /\ InitLocals
        /\ InitWeb
        /\ probe = [fn |-> "", gate |-> gate, matrix |-> targetGateVector,
                    input |-> state_vector, result |-> <<>>]

\* One call of apply_controlled_gate
ProbeApplyGate ==
    /\ pc = "probe" /\ probe.fn = ""
    /\ probe' = [probe EXCEPT
                    !.fn = "apply_controlled_gate",
                    !.result = apply_controlled_gate(probe.input, probe.gate,
                                                     probe.matrix, numQubit)]
    /\ ProbeUnchanged

\* Two calls with the same descriptor and matrix, the second on the array the
\* first returned
ProbeApplyGateTwice ==
    /\ pc = "probe" /\ probe.fn = ""
    /\ \E once \in {apply_controlled_gate(probe.input, probe.gate,
                                           probe.matrix, numQubit)} :
         probe' = [probe EXCEPT
                     !.fn = "apply_controlled_gate twice",
                     !.result = apply_controlled_gate(once, probe.gate,
                                                      probe.matrix, numQubit)]
    /\ ProbeUnchanged

NextGate ==
    \/ ProbeApplyGate
    \/ ProbeApplyGateTwice

SpecGate == InitGate /\ [][NextGate]_vars

-----------------------------------------------------------------------------
(* partical_trace, AllCoordinateCalc and RadiusCalc applied on their own *)

\* The phases 1, i, -1, -i
Units == {<<1, 0>>, <<0, 1>>, <<-1, 0>>, <<0, -1>>}

\* alpha|a> + beta|b> with equal weights (a single basis state when a = b)
TwoTerm(n, a, b, alpha, beta) ==
    [amp |-> [j \in 0..(Pow2(n) - 1) |->
                 IF j = a THEN alpha ELSE IF j = b THEN beta ELSE <<0, 0>>],
     h |-> IF a = b THEN 0 ELSE 1]

TwoTermStates(n) ==
    { TwoTerm(n, ab[1], ab[2], ph[1], ph[2]) :
        ab \in {x \in (0..(Pow2(n) - 1)) \X (0..(Pow2(n) - 1)) : x[1] <= x[2]},
        ph \in Units \X Units }

InitTrace ==
    \E n \in 1..MaxQubits :
        /\ args = [json_long |-> <<>>, json_short |-> <<>>,
                   target_coordinates |-> [q \in 1..n |-> <<0, 0>>],
                   target_radius |-> [q \in 1..n |-> <<1, 1>>]]
        /\ heap = InitialHeap(n)
        /\ pc = "probe"
        /\ InitLocals
        /\ InitWeb
        /\ probe = [fn |-> "", input |-> <<>>, result |-> <<>>]

\* partical_trace on a state vector
ProbePartialTrace ==
    /\ pc = "probe" /\ probe.fn = ""
    /\ \E state_vector \in TwoTermStates(numQubit) \cup ProbeVectors(numQubit) :
         probe' = [fn |-> "partical_trace", input |-> state_vector,
                   result |-> partical_trace(state_vector, numQubit)]
    /\ ProbeUnchanged

\* partical_trace followed by AllCoordinateCalc and by RadiusCalc on every
\* qubit, as mainCalc and resultCalc combine them
ProbeRadiusCalc ==
    /\ pc = "probe" /\ probe.fn = ""
    /\ \E state_vector \in TwoTermStates(numQubit) :
         \E densityMatrix \in {partical_trace(state_vector, numQubit)} :
           probe' = [fn |-> "RadiusCalc", input |-> state_vector,
                     result |->
                         [coordinates |-> [q \in 1..numQubit |->
                                              CoordinateCalc(densityMatrix[q])],
                          radius |-> RadiusCalc(densityMatrix,
                                                [q \in 1..numQubit |-> <<q - 1>>])]]
    /\ ProbeUnchanged

NextTrace ==
    \/ ProbePartialTrace
    \/ ProbeRadiusCalc

SpecTrace == InitTrace /\ [][NextTrace]_vars

-----------------------------------------------------------------------------
(* calc_order_1 applied to the groups add_order forms *)

\* Target radii below 1 - 1e-5; 1/4 = 1/2 * 1/2 gives a group whose
\* coefficient A is exactly 1
OrderRadii == {<<1, 4>>, <<1, 2>>, <<7, 10>>, <<9, 10>>}

InitOrder ==
    \E n \in 1..MaxQubits :
      \E radii \in [1..n -> OrderRadii] :
        /\ args = [json_long |-> <<>>, json_short |-> <<>>,
                   target_coordinates |->
                       [q \in 1..n |-> coordinate_calc_input(0, 0, radii[q])],
                   target_radius |-> radii]
        /\ heap = InitialHeap(n)
        /\ pc = "probe"
        /\ InitLocals
        /\ InitWeb
        /\ probe = [fn |-> "", input |-> <<>>, result |-> <<>>]

\* calc_order_1 on one entry of result_array (func_2.py:478-479), for target
\* radii that radius_judge accepts
ProbeCalcOrder1 ==
    /\ pc = "probe" /\ probe.fn = ""
    /\ \E judged \in {radius_judge(numQubit, args.target_radius)} :
         /\ judged.tag = "sorted"
         /\ Len(judged.data) >= 1
         /\ \E loop \in {AddOrderLoop(judged.data,
                                        [k \in 1..Len(judged.data) |-> 0], 0,
                                        <<>>, <<>>)} :
              /\ ~loop.exc
              /\ \E g \in 1..Len(loop.result_array) :
                   probe' = [fn |-> "calc_order_1", input |-> loop.result_array[g],
                             result |-> calc_order_1(loop.result_array[g])]
    /\ ProbeUnchanged

NextOrder == ProbeCalcOrder1

SpecOrder == InitOrder /\ [][NextOrder]_vars

-----------------------------------------------------------------------------
(* The while loop of add_order, one pass per step, on every non-empty list   *)
(* in ascending order of radius.  probe holds the loop's variables;          *)
(* probe.at is "loop" while the loop runs, "order" once it has been left,    *)
(* then "returned" or "raised".                                              *)

AddOrderRadii == {RInt(0), Rat(1, 4), Rat(1, 2), Rat(9, 10), RInt(1)}

SortedInputs ==
    UNION { { [k \in 1..n |-> <<k - 1, r[k]>>] :
                r \in { c \in [1..n -> AddOrderRadii] :
                            \A k \in 1..(n - 1) : RLeq(c[k], c[k + 1]) } } :
            n \in 1..MaxQubits }

\* func_2.py:435-475: the rest of a pass whose anchor is list position idx,
\* the marks written to mask and the variables left by it
PassFrom(sorted_data, idx, mask, count, result_array, result_array_2) ==
    LET grouped(maltiply_radius, marked) ==
            IF RIsZero(maltiply_radius)
            THEN [at |-> "raised", mask |-> marked, count |-> count,
                  result_array |-> result_array,
                  result_array_2 |-> result_array_2]
            ELSE [at |-> IF \A k \in 1..Len(marked) : marked[k] # 0
                         THEN "order" ELSE "loop",
                  mask |-> marked, count |-> count,
                  result_array |->
                      Append(result_array,
                          << RDiv(sorted_data[idx + 1][2], maltiply_radius),
                             MarkedEntries(sorted_data, marked, {count}, 1) >>),
                  result_array_2 |-> result_array_2]
        joined(maltiply_radius, new_mask) ==
            grouped(maltiply_radius,
                    [k \in 1..Len(mask) |->
                        IF \E g \in 1..Len(new_mask) : new_mask[g] = k - 1
                        THEN count ELSE mask[k]])
        scanned(sc) ==
            IF sc.judge
            THEN joined(RMul(sc.maltiply_radius, sorted_data[sc.last_data + 1][2]),
                        Append(sc.new_mask, sc.last_data))
            ELSE [at |-> "order", mask |-> mask, count |-> count,
                  result_array |-> result_array,
                  result_array_2 |-> result_array_2
                      \o IndividualPairs(sorted_data, mask, count, 0)]
    IN  scanned(ScanGroup(sorted_data, mask, idx, 0,
                    [judge |-> FALSE, maltiply_radius |-> RInt(1),
                     new_maltiply_radius |-> RInt(1), new_mask |-> <<>>,
                     last_data |-> -1, stop |-> FALSE]))

\* A pass whose marks are lost: the next pass sees the mask of this one
AddOrderPassNoMarks(sorted_data, mask0, count0, result_array, result_array_2) ==
    [PassFrom(sorted_data, FirstUnmarked(mask0),
              [mask0 EXCEPT ![FirstUnmarked(mask0) + 1] = count0 + 1],
              count0 + 1, result_array, result_array_2)
        EXCEPT !.mask = mask0, !.at = IF @ = "order" THEN "loop" ELSE @]

\* func_2.py:420-475: one pass of the while loop.  The first unmarked
\* position becomes the anchor and is marked with the pass number.
AddOrderPass(sorted_data, mask0, count0, result_array, result_array_2) ==
    PassFrom(sorted_data, FirstUnmarked(mask0),
             [mask0 EXCEPT ![FirstUnmarked(mask0) + 1] = count0 + 1],
             count0 + 1, result_array, result_array_2)

InitAddOrder ==
    /\ args = [json_long |-> <<>>, json_short |-> <<>>,
               target_coordinates |-> [q \in 1..2 |-> <<0, 0>>],
               target_radius |-> [q \in 1..2 |-> <<1, 1>>]]
    /\ heap = InitialHeap(2)
    /\ pc = "probe"
    /\ InitLocals
    /\ InitWeb
    /\ \E sorted_data \in SortedInputs :
         probe = [fn |-> "add_order", input |-> sorted_data, at |-> "loop",
                  mask |-> [k \in 1..Len(sorted_data) |-> 0], count |-> 0,
                  result_array |-> <<>>, result_array_2 |-> <<>>,
                  result |-> <<>>]

\* One pass of the loop.  The pass number stays within one more than the
\* length of the list, so that the model is finite.
AddOrderStep ==
    /\ pc = "probe" /\ probe.fn = "add_order" /\ probe.at = "loop"
    /\ probe.count <= Len(probe.input)
    /\ \E pass \in {AddOrderPass(probe.input, probe.mask, probe.count,
                                   probe.result_array, probe.result_array_2)} :
         probe' = [probe EXCEPT !.at = pass.at, !.mask = pass.mask,
                                !.count = pass.count,
                                !.result_array = pass.result_array,
                                !.result_array_2 = pass.result_array_2]
    /\ ProbeUnchanged

\* func_2.py:477-484: the order is made of the groups and of the pairs
AddOrderReturn ==
    /\ pc = "probe" /\ probe.fn = "add_order" /\ probe.at = "order"
    /\ \E first \in {ExtendOrder1(probe.result_array, 1)} :
         probe' = [probe EXCEPT
                     !.at = IF first.exc THEN "raised" ELSE "returned",
                     !.result =
                         IF first.exc THEN <<>>
                         ELSE first.order
                              \o [k \in 1..Len(probe.result_array_2) |->
                                     calc_order_2(probe.result_array_2[k])]]
    /\ ProbeUnchanged

NextAddOrder == AddOrderStep \/ AddOrderReturn

SpecAddOrder == InitAddOrder /\ [][NextAddOrder]_vars

-----------------------------------------------------------------------------
(* The running minimum of a search step on given errors.  An error is        *)
(* [half |-> c, tick |-> k], the float c * 0.5 + k * 5e-13 with k far below  *)
(* the 10^12 ticks of one half, so that errors compare by half, then tick.   *)

MaxCandidates == 3
MaxTick == 3

\* 0.000000000001 (func_2.py:356) in ticks
EpsTicks == 2

\* min_diff = 2 (func_2.py:660, 718)
InitialMinDiff == [half |-> 4, tick |-> 0]

\* Faulty variant: any smaller error replaces the minimum
diff_compare_strict(min_d, result_diff) ==
    IF \/ min_d.half > result_diff.half
       \/ (min_d.half = result_diff.half /\ min_d.tick > result_diff.tick)
    THEN <<result_diff, TRUE>>
    ELSE <<min_d, FALSE>>

\* diff_compare on errors with ticks: min_diff - 0.000000000001 > result_diff
diff_compare_eps(min_d, result_diff) ==
    IF \/ min_d.half > result_diff.half
       \/ (min_d.half = result_diff.half
             /\ min_d.tick - EpsTicks > result_diff.tick)
    THEN <<result_diff, TRUE>>
    ELSE <<min_d, FALSE>>

\* Errors near 0.5 and near the initial minimum 2
CandidateErrors == [half : {1, 4}, tick : 0..MaxTick]

\* The step of qubit 0 of a one-qubit run whose long table has m entries
\* with the labels 1..m; probe.result_diffs[k] is the error that the
\* evaluation of entry k gives
InitCompare ==
    \E m \in 1..MaxCandidates :
      \E result_diffs \in [1..m -> CandidateErrors] :
        /\ args = [json_long |-> [k \in 1..m |-> << <<k>>, MatI >>],
                   json_short |-> <<>>,
                   target_coordinates |-> << coordinate_calc_input(0, 0, RInt(1)) >>,
                   target_radius |-> << RInt(1) >>]
        /\ heap = InitialHeap(1)
        /\ pc = "scan"
        /\ result_state = CallerArray
        /\ state = Unbound
        /\ data_1_state = Unbound
        /\ calc_order = <<>>
        /\ progressConst = <<>>
        /\ min_diff = InitialMinDiff
        /\ num = 0 /\ index_1 = 0 /\ index_2 = 0 /\ qubit_i = 0 /\ index = 0
        /\ gate_array = <<>>
        /\ gate_array_result_1 = NoRecord
        /\ gate_array_result_2 = NoRecord
        /\ gate_array_result = NoRecord
        /\ ret = NoReturn
        /\ callback = [calls |-> 0, last |-> RInt(0), reply |-> TRUE]
        /\ evaluated = 0
        /\ InitWeb
        /\ probe = [fn |-> "diff_compare", result_diffs |-> result_diffs]

\* func_2.py:736-740: the error of entry index is compared with the minimum;
\* an accepted entry leaves its record
CompareCandidate ==
    /\ pc = "scan"
    /\ \E cmp \in {diff_compare_eps(min_diff, probe.result_diffs[index + 1])} :
         /\ min_diff' = cmp[1]
         /\ gate_array_result' =
                IF cmp[2] THEN <<args.json_long[index + 1][1], qubit_i>>
                ELSE gate_array_result
    /\ evaluated' = evaluated + 1
    /\ index' = index + 1
    /\ pc' = NextCandidate(index, args.json_long, "scan", "commit")
    /\ UNCHANGED <<args, heap, result_state, state, data_1_state, calc_order,
                   progressConst, num, index_1, index_2, qubit_i, gate_array,
                   gate_array_result_1, gate_array_result_2, ret, callback, probe>>
    /\ UNCHANGED webVars

\* func_2.py:743-744: the record of the step is appended
CommitBest ==
    /\ pc = "commit"
    /\ IF gate_array_result = NoRecord
       THEN ret' = Raised("UnboundLocalError") /\ gate_array' = gate_array
       ELSE ret' = ret /\ gate_array' = Append(gate_array, gate_array_result)
    /\ pc' = "done"
    /\ UNCHANGED <<args, heap, result_state, state, data_1_state, calc_order,
                   progressConst, min_diff, num, index_1, index_2, qubit_i, index,
                   gate_array_result_1, gate_array_result_2, gate_array_result,
                   callback, evaluated, probe>>
    /\ UNCHANGED webVars

NextCompare ==
    \/ CompareCandidate
    \/ CommitBest

SpecCompare == InitCompare /\ [][NextCompare]_vars

-----------------------------------------------------------------------------
(* The web layer of mainQuantum.py for one user: get_vector, which sets the  *)
(* stop flag and starts a thread, and the threads running                    *)
(* gate_geration_task with the callback update_progress.  The search itself  *)
(* is the sequence of its callback invocations.  Requests are handled one    *)
(* at a time; threads interleave freely at every access to the flag.         *)

\* session['user_id'] of the user's requests
UserId == "user_id"

\* The passes of waitForCompletion before it gives up (1e+3 in the code,
\* mainQuantum.py:73), scaled down
MaxWait == 2

\* thread_stop_flags.get(user_id, False)
FlagOf(flags) == IF UserId \in DOMAIN flags THEN flags[UserId] ELSE FALSE

\* mainQuantum.py:184-187: the previous thread is told to stop; a user seen
\* for the first time gets a cleared flag
GetVectorSetFlag ==
    /\ handler.pc = "idle"
    /\ handler.started < MaxRequests
    /\ thread_stop_flags' =
           [u \in {UserId} |-> UserId \in DOMAIN thread_stop_flags]
    /\ handler' = [handler EXCEPT !.pc = "starting"]
    /\ UNCHANGED threads
    /\ UNCHANGED calcVars

\* mainQuantum.py:223-231: the new thread is started
GetVectorStartThread ==
    /\ handler.pc = "starting"
    /\ threads' = [threads EXCEPT ![handler.started + 1] =
                       [pc |-> "initial", count |-> 0]]
    /\ handler' = [pc |-> "idle", started |-> handler.started + 1]
    /\ UNCHANGED thread_stop_flags
    /\ UNCHANGED calcVars

\* mainQuantum.py:96 with 204: update_progress_callback(0.0) reads the
\* flag; its answer is not looked at
InitialCallback(t) ==
    /\ threads[t].pc = "initial"
    /\ threads' = [threads EXCEPT ![t].pc =
                       IF FlagOf(thread_stop_flags) THEN "initial_reset" ELSE "wait"]
    /\ UNCHANGED <<thread_stop_flags, handler>>
    /\ UNCHANGED calcVars

\* mainQuantum.py:204-207: a callback that has read a set flag clears it and
\* answers False.  After the initial callback the thread goes on to wait,
\* within the search mainCalc returns and the final callback follows, after
\* the final callback the thread ends.
CallbackReset(t) ==
    /\ threads[t].pc \in {"initial_reset", "search_reset", "final_reset"}
    /\ thread_stop_flags' = [thread_stop_flags EXCEPT ![UserId] = FALSE]
    /\ threads' = [threads EXCEPT ![t].pc =
                       CASE threads[t].pc = "initial_reset" -> "wait"
                         [] threads[t].pc = "search_reset" -> "final"
                         [] threads[t].pc = "final_reset" -> "ended"]
    /\ UNCHANGED handler
    /\ UNCHANGED calcVars

\* mainQuantum.py:71-77 and 99: one pass of waitForCompletion; the
\* search starts when the flag is found cleared, and after too many passes
\* the thread gives up and makes its final callback (113-115)
WaitLoop(t) ==
    /\ threads[t].pc = "wait"
    /\ threads' = [threads EXCEPT ![t] =
                       IF thread_stop_flags[UserId]
                       THEN IF threads[t].count >= MaxWait
                            THEN [pc |-> "final", count |-> threads[t].count]
                            ELSE [pc |-> "wait", count |-> threads[t].count + 1]
                       ELSE [pc |-> "search", count |-> threads[t].count]]
    /\ UNCHANGED <<thread_stop_flags, handler>>
    /\ UNCHANGED calcVars

\* func_2.py:678, 725 with mainQuantum.py:204: a callback of the search
\* reads the flag
SearchCallback(t) ==
    /\ threads[t].pc = "search"
    /\ threads' = [threads EXCEPT ![t].pc =
                       IF FlagOf(thread_stop_flags) THEN "search_reset" ELSE "search"]
    /\ UNCHANGED <<thread_stop_flags, handler>>
    /\ UNCHANGED calcVars

\* mainQuantum.py:101-103: the search returns its result
SearchFinish(t) ==
    /\ threads[t].pc = "search"
    /\ threads' = [threads EXCEPT ![t].pc = "final"]
    /\ UNCHANGED <<thread_stop_flags, handler>>
    /\ UNCHANGED calcVars

\* mainQuantum.py:110 and 115 with 204: the final callback reads the flag
FinalCallback(t) ==
    /\ threads[t].pc = "final"
    /\ threads' = [threads EXCEPT ![t].pc =
                       IF FlagOf(thread_stop_flags) THEN "final_reset" ELSE "ended"]
    /\ UNCHANGED <<thread_stop_flags, handler>>
    /\ UNCHANGED calcVars

\* mainCalc is not part of this specification: its variables stay as they
\* are before a run
InitWebLayer ==
    /\ args = [json_long |-> <<>>, json_short |-> <<>>,
               target_coordinates |-> <<>>, target_radius |-> <<>>]
    /\ heap = InitialHeap(0)
    /\ pc = "start"
    /\ InitLocals
    /\ InitWeb
    /\ probe = <<>>

NextWeb ==
    \/ GetVectorSetFlag
    \/ GetVectorStartThread
    \/ \E t \in 1..MaxRequests : InitialCallback(t)
    \/ \E t \in 1..MaxRequests : CallbackReset(t)
    \/ \E t \in 1..MaxRequests : WaitLoop(t)
    \/ \E t \in 1..MaxRequests : SearchCallback(t)
    \/ \E t \in 1..MaxRequests : SearchFinish(t)
    \/ \E t \in 1..MaxRequests : FinalCallback(t)

SpecWeb == InitWebLayer /\ [][NextWeb]_vars

-----------------------------------------------------------------------------
(* partical_trace, CoordinateCalc and RadiusCalc in float64 arithmetic, on   *)
(* 2-qubit vectors of Bell type.  A natural number is a sequence of ten      *)
(* limbs of 13 bits, least significant first; a float is                     *)
(* [neg, mant, exp], the number (-1)^neg * mant * 2^exp with mant < 2^53     *)
(* (or 2^53 itself after a rounding, which is the same float).               *)

Base == Pow2(13)
NoLimbs == [k \in 1..10 |-> 0]
FloatZero == [neg |-> FALSE, mant |-> NoLimbs, exp |-> 0]
IsZero(x) == x.mant = NoLimbs

\* Carries (or borrows) are passed upwards from limb k on
RECURSIVE Carry(_, _, _)
Carry(v, k, c) ==
    IF k > Len(v) THEN <<>>
    ELSE <<(v[k] + c) % Base>> \o Carry(v, k + 1, (v[k] + c) \div Base)

Normalize(v) == Carry(v, 1, 0)

\* Limb k of a product before the carries: the sum of a[i] * b[k + 1 - i]
RECURSIVE Convolve(_, _, _, _)
Convolve(a, b, k, i) ==
    IF i > k THEN 0 ELSE a[i] * b[k + 1 - i] + Convolve(a, b, k, i + 1)

\* The product of two numbers below 2^65
LimbMul(a, b) == Normalize([k \in 1..10 |-> Convolve(a, b, k, 1)])

\* a >= b, compared from limb k downwards
RECURSIVE LimbGeqFrom(_, _, _)
LimbGeqFrom(a, b, k) ==
    IF k = 0 THEN TRUE
    ELSE IF a[k] # b[k] THEN a[k] > b[k]
    ELSE LimbGeqFrom(a, b, k - 1)

LimbGeq(a, b) == LimbGeqFrom(a, b, 10)

\* a - b for a >= b
LimbSub(a, b) == Normalize([k \in 1..10 |-> a[k] - b[k]])

\* The number 2^e
LimbPow2(e) == [k \in 1..10 |-> IF k = (e \div 13) + 1 THEN Pow2(e % 13) ELSE 0]

\* floor(v / 2^52) and floor(v / 2^53)
Shift52(v) == [k \in 1..10 |-> IF k + 4 <= 10 THEN v[k + 4] ELSE 0]
Shift53(v) ==
    [k \in 1..10 |->
        (Shift52(v)[k] \div 2)
        + (IF k < 10 THEN (Shift52(v)[k + 1] % 2) * (Base \div 2) ELSE 0)]

\* The bits of v below 2^52 are all 0
Low52IsZero(v) == v[1] = 0 /\ v[2] = 0 /\ v[3] = 0 /\ v[4] = 0

\* Round to nearest, ties to even: the quotient q of a division by a power
\* of two is raised by one when the remainder is above half, or is half and
\* q is odd
RoundNearestEven(q, aboveHalf, isHalf) ==
    IF aboveHalf \/ (isHalf /\ q[1] % 2 = 1)
    THEN Normalize([k \in 1..10 |-> IF k = 1 THEN q[1] + 1 ELSE q[k]])
    ELSE q

\* The float nearest to x * x for a float x with 2^52 <= mant < 2^53: the
\* product p of the mantissas is below 2^106 and is cut to 53 bits
FloatSquare(x) ==
    LET cut(p) ==
            IF p[9] >= 2
            THEN [neg |-> FALSE,
                  mant |-> RoundNearestEven(Shift53(p),
                               Shift52(p)[1] % 2 = 1 /\ ~Low52IsZero(p),
                               Shift52(p)[1] % 2 = 1 /\ Low52IsZero(p)),
                  exp |-> 2 * x.exp + 53]
            ELSE [neg |-> FALSE,
                  mant |-> RoundNearestEven(Shift52(p),
                               p[4] > Base \div 2
                                   \/ (p[4] = Base \div 2
                                        /\ ~(p[1] = 0 /\ p[2] = 0 /\ p[3] = 0)),
                               p[4] = Base \div 2 /\ p[1] = 0 /\ p[2] = 0 /\ p[3] = 0),
                  exp |-> 2 * x.exp + 52]
    IN  cut(LimbMul(x.mant, x.mant))

\* x + y when one of the two is 0, which is exact
FloatAddZero(x, y) ==
    CASE IsZero(x) -> y
      [] IsZero(y) -> x

\* A z component that leaves out the subtraction of 1
FloatZNoOffset(d00) == [neg |-> FALSE, mant |-> d00.mant, exp |-> d00.exp + 1]

\* func_2.py:249: z = abs(2 * d00) - 1 for 1/4 <= d00 <= 1.  Doubling is
\* exact, and so is the difference of two floats within a factor 2.
FloatZ(d00) ==
    LET minus(one) ==
            IF LimbGeq(d00.mant, one)
            THEN [neg |-> FALSE, mant |-> LimbSub(d00.mant, one), exp |-> d00.exp + 1]
            ELSE [neg |-> TRUE, mant |-> LimbSub(one, d00.mant), exp |-> d00.exp + 1]
    IN  minus(LimbPow2(-(d00.exp + 1)))

\* An amplitude is [mag, phase]: the float mag times the unit phase
\* (1, i, -1 or -i), so that abs(amplitude) is mag exactly.
\* func_2.py:221-226: densityMatrix[i, 0, 0] for a vector of two qubits
RECURSIVE FloatOccupation(_, _, _)
FloatOccupation(sv, j, i) ==
    IF j > 3 THEN FloatZero
    ELSE FloatAddZero(
             IF (j \div Pow2(2 - i - 1)) % 2 = 0 /\ ~IsZero(sv[j].mag)
             THEN FloatSquare(sv[j].mag) ELSE FloatZero,
             FloatOccupation(sv, j + 1, i))

\* func_2.py:204-218: densityMatrix[i, 0, 1] when every product
\* state[i0] * conj(state[i1]) has a factor 0
FloatCoherence(sv, i) ==
    CASE \A j \in 0..3 :
             (j \div Pow2(2 - i - 1)) % 2 = 0
                 => (IsZero(sv[j].mag) \/ IsZero(sv[j + Pow2(2 - i - 1)].mag))
           -> FloatZero

\* CoordinateCalc on the matrix of qubit i: x and y are twice the parts of
\* [1][0], the conjugate of [0][1]
FloatCoordinate(sv, i) ==
    << FloatCoherence(sv, i), FloatCoherence(sv, i),
       FloatZ(FloatOccupation(sv, 0, i)) >>

\* func_2.py:292: sqrt(sum(coordinate**2)) when x and y are 0: z * z and
\* its square root are exact for a z of a few bits
FloatRadius(coordinate) ==
    CASE IsZero(coordinate[1]) /\ IsZero(coordinate[2])
           -> [neg |-> FALSE, mant |-> coordinate[3].mant, exp |-> coordinate[3].exp]

\* The float64 nearest to 1/sqrt(2): 0x1.6a09e667f3bcdp-1
SqrtHalf == [neg |-> FALSE,
             mant |-> <<7117, 5113, 1945, 3393, 1, 0, 0, 0, 0, 0>>,
             exp |-> -53]

\* The floats up to MaxUlps places away from it
MaxUlps == 2
NearSqrtHalf ==
    { [SqrtHalf EXCEPT !.mant[1] = @ + d] : d \in (-MaxUlps)..MaxUlps }

\* Equal weight on the basis states a and 3 - a, which differ in both qubits
BellVector(a, mag, ph) ==
    [j \in 0..3 |->
        IF j = a THEN [mag |-> mag, phase |-> ph[1]]
        ELSE IF j = 3 - a THEN [mag |-> mag, phase |-> ph[2]]
        ELSE [mag |-> FloatZero, phase |-> <<1, 0>>]]

InitBell ==
    /\ args = [json_long |-> <<>>, json_short |-> <<>>,
               target_coordinates |-> [q \in 1..2 |-> <<0, 0>>],
               target_radius |-> [q \in 1..2 |-> <<1, 1>>]]
    /\ heap = InitialHeap(2)
    /\ pc = "probe"
    /\ InitLocals
    /\ InitWeb
    /\ probe = [fn |-> "", input |-> <<>>, result |-> <<>>]

\* partical_trace, then CoordinateCalc and RadiusCalc for both qubits
ProbeBellRadius ==
    /\ pc = "probe" /\ probe.fn = ""
    /\ \E a \in 0..1, mag \in NearSqrtHalf, ph \in Units \X Units :
         \E sv \in {BellVector(a, mag, ph)} :
           probe' = [fn |-> "RadiusCalc", input |-> sv,
                     result |->
                         [coordinates |-> [q \in 1..2 |-> FloatCoordinate(sv, q - 1)],
                          radius |-> [q \in 1..2 |->
                                         FloatRadius(FloatCoordinate(sv, q - 1))]]]
    /\ ProbeUnchanged

NextBell == ProbeBellRadius

SpecBell == InitBell /\ [][NextBell]_vars

-----------------------------------------------------------------------------
(* calc_initialize_state, apply_controlled_gate with an uncontrolled X and   *)
(* partical_trace in float64 arithmetic, on vectors whose entries are 0, 1   *)
(* or cos(pi/2): all amplitudes are real and not negative, and every product *)
(* has a factor 0 or 1.                                                      *)

MaxFloatQubits == 4

\* 1.0
FloatOne == [neg |-> FALSE, mant |-> LimbPow2(52), exp |-> -52]

\* func_2.py:89 for data[1] = 180: np.cos of the float pi/2 is
\* 0x1.1a62633145c07p-54 (6.123233995736766e-17)
CosHalfPi == [neg |-> FALSE,
              mant |-> <<7175, 6306, 2444, 844, 1, 0, 0, 0, 0, 0>>,
              exp |-> -106]

\* func_2.py:89: initialize[0] = np.cos(theta1_rad / 2)
FloatCosHalf(theta) ==
    CASE theta = 0 -> FloatOne
      [] theta = 180 -> CosHalfPi

\* func_2.py:90: initialize[1] = np.exp(0+1j*phi1_rad) * np.sin(theta1_rad / 2):
\* sin(0) = 0 makes it 0 at every azimuth; exp(0j) = 1 and sin of the float
\* pi/2 is 1.0
FloatSinHalf(phi, theta) ==
    CASE theta = 0 -> FloatZero
      [] theta = 180 /\ phi = 0 -> FloatOne

\* x * y when one of the two is 0 or 1, which is exact
FloatMulUnit(x, y) ==
    CASE IsZero(x) \/ IsZero(y) -> FloatZero
      [] x = FloatOne -> y
      [] y = FloatOne -> x

\* x + y for floats that are not negative, when one is 0 or one is below
\* a quarter of the other's last place (the sum then rounds to the other)
FloatAddFar(x, y) ==
    CASE IsZero(x) -> y
      [] IsZero(y) -> x
      [] x.exp - y.exp >= 55 -> x
      [] y.exp - x.exp >= 55 -> y

\* A calc_initialize_state that puts each new qubit on the highest bit
RECURSIVE FloatInitializePrefixHigh(_, _)
FloatInitializePrefixHigh(initialize_values, k) ==
    IF k = 0 THEN [j \in 0..0 |-> FloatOne]
    ELSE LET prev(v) ==
                 [j \in 0..(Pow2(k) - 1) |->
                     FloatMulUnit(v[j % Pow2(k - 1)],
                         IF j \div Pow2(k - 1) = 0
                         THEN FloatCosHalf(initialize_values[k][2])
                         ELSE FloatSinHalf(initialize_values[k][1],
                                           initialize_values[k][2]))]
         IN  prev(FloatInitializePrefixHigh(initialize_values, k - 1))

\* func_2.py:77-96: calc_initialize_state after the first k entries
RECURSIVE FloatInitializePrefix(_, _)
FloatInitializePrefix(initialize_values, k) ==
    IF k = 0 THEN [j \in 0..0 |-> FloatOne]
    ELSE LET prev(v) ==
                 [j \in 0..(Pow2(k) - 1) |->
                     FloatMulUnit(v[j \div 2],
                         IF j % 2 = 0
                         THEN FloatCosHalf(initialize_values[k][2])
                         ELSE FloatSinHalf(initialize_values[k][1],
                                           initialize_values[k][2]))]
         IN  prev(FloatInitializePrefix(initialize_values, k - 1))

\* func_2.py:172-184 with the matrix X and no control: state_vector[i0]
\* becomes sv0 * 0 + sv1 * 1 and state_vector[i1] becomes sv0 * 1 + sv1 * 0,
\* where i1 = i0 + p and p = 2^numQubit / 2^targetQubit / 2
FloatApplyX(sv, n, targetQubit) ==
    LET swap(p) ==
            [j \in 0..(Pow2(n) - 1) |->
                IF j % (2 * p) < p
                THEN FloatAddFar(FloatMulUnit(sv[j], FloatZero),
                                 FloatMulUnit(sv[j + p], FloatOne))
                ELSE FloatAddFar(FloatMulUnit(sv[j - p], FloatOne),
                                 FloatMulUnit(sv[j], FloatZero))]
    IN  swap((Pow2(n) \div Pow2(targetQubit)) \div 2)

\* func_2.py:221-226: densityMatrix[i, 0, 0] after the indices below j,
\* added up in the order of j
RECURSIVE FloatOccupationFrom(_, _, _, _, _)
FloatOccupationFrom(sv, j, n, i, sum) ==
    IF j >= Pow2(n) THEN sum
    ELSE FloatOccupationFrom(sv, j + 1, n, i,
             IF (j \div Pow2(n - i - 1)) % 2 = 0
             THEN FloatAddFar(sum, IF IsZero(sv[j]) THEN FloatZero
                                   ELSE FloatSquare(sv[j]))
             ELSE sum)

\* densityMatrix[i][0][0] of partical_trace for every qubit i
FloatOccupations(sv, n) ==
    [q \in 1..n |-> FloatOccupationFrom(sv, 0, n, q - 1, FloatZero)]

\* The azimuths and polar angles at which qubit k alone is at polar angle
\* 180 (azimuth 0); the other qubits are at polar angle 0, at any azimuth
AloneAt180(n, k) ==
    { v \in [1..n -> {0, 90, 180, 270} \X {0, 180}] :
        /\ v[k + 1] = <<0, 180>>
        /\ \A q \in 1..n : q # k + 1 => v[q][2] = 0 }

InitNumbering ==
    /\ args = [json_long |-> <<>>, json_short |-> <<>>,
               target_coordinates |-> [q \in 1..2 |-> <<0, 0>>],
               target_radius |-> [q \in 1..2 |-> <<1, 1>>]]
    /\ heap = InitialHeap(2)
    /\ pc = "probe"
    /\ InitLocals
    /\ InitWeb
    /\ probe = [fn |-> "", input |-> <<>>, result |-> <<>>]

\* X on qubit k of the all-|0> vector beside the vector initialized with
\* qubit k alone at polar angle 180, and partical_trace of both
ProbeNumbering ==
    /\ pc = "probe" /\ probe.fn = ""
    /\ \E n \in 1..MaxFloatQubits :
         \E k \in 0..(n - 1) :
           \E v \in AloneAt180(n, k) :
             \E flipped \in {FloatApplyX(FloatInitializePrefix(
                                 [q \in 1..n |-> <<0, 0>>], n), n, k)},
                initialized \in {FloatInitializePrefix(v, n)} :
               probe' = [fn |-> "numbering",
                         input |-> [numQubit |-> n, k |-> k, initialize_values |-> v],
                         result |-> [flipped |-> flipped,
                                     initialized |-> initialized,
                                     flipped_d00 |-> FloatOccupations(flipped, n),
                                     initialized_d00 |->
                                         FloatOccupations(initialized, n)]]
    /\ ProbeUnchanged

NextNumbering == ProbeNumbering

SpecNumbering == InitNumbering /\ [][NextNumbering]_vars

-----------------------------------------------------------------------------
(* mainCalc on tables in any order and on targets chosen for each qubit:     *)
(* a table of one candidate or a table in the order of CandidateList; the    *)
(* radii are all 1 or all 1/2; every qubit has a target direction of its own *)

ReplayTables ==
    { <<c>> : c \in {CandidateList[k] : k \in 1..Len(CandidateList)} }
        \cup { Prefix(CandidateList, l) : l \in 1..MaxLong }

InitReplay ==
    \E n \in 1..MaxQubits, s \in 1..MaxShort, long \in ReplayTables,
       radius \in {Rat(1, 2), RInt(1)} :
      \E angles \in [1..n -> TargetAngles] :
        /\ args = [json_long |-> long,
                   json_short |-> Prefix(CandidateList, s),
                   target_coordinates |->
                       [q \in 1..n |->
                           coordinate_calc_input(angles[q][1], angles[q][2], radius)],
                   target_radius |-> [q \in 1..n |-> radius]]
        /\ heap = InitialHeap(n)
        /\ pc = "start"
        /\ InitLocals
        /\ InitWeb
        /\ probe = <<>>

SpecReplay == InitReplay /\ [][Next]_vars

-----------------------------------------------------------------------------
(* second_convert_gate of gate_convert_2.py on the gate lists of mainCalc,   *)
(* one pass of its while loop per step.  probe holds the function's          *)
(* variables; probe.added keeps the add_data_list of every pass, in order.   *)
(* A record is <<label, qubit>>; qubits and the record number i count from 0 *)
(* as in the code.                                                           *)

\* gate_convert_2.py:111-136: <<TF, result_gate, control>>.  The CNOT record
\* of mainCalc follows the two records of its step, so i is 2 or more.
func_cnot_convert(n, data_list, targetBit, result_gate, input_data, i) ==
    LET converted(control) ==
            IF /\ Len(input_data[i - 1][1]) <= data_list[i - 1]
               /\ Len(input_data[i][1]) <= data_list[i]
            THEN <<TRUE,
                   [q \in 1..n |->
                       IF q = control + 1 THEN "control"
                       ELSE IF q = targetBit + 1 THEN "X" ELSE ""],
                   control>>
            ELSE <<FALSE, result_gate, control>>
    IN  converted(IF targetBit = input_data[i][2]
                  THEN input_data[i - 1][2] ELSE input_data[i][2])

\* gate_convert_2.py:163-188: the for loop of one pass from record i on
RECURSIVE ConvertFrom(_, _, _, _, _, _, _)
ConvertFrom(n, first_converted_gate, data_list, i, result_gate, add_data_list, cnot_mask) ==
    IF i >= Len(first_converted_gate)
    THEN [result_gate |-> result_gate, add_data_list |-> add_data_list]
    ELSE
      LET gate_data == first_converted_gate[i + 1]
          next(rg, add, mask) ==
              ConvertFrom(n, first_converted_gate, data_list, i + 1,
                          rg, add, mask)
          cnot(c) ==
              IF c[1]
              THEN [result_gate |-> c[2],
                    add_data_list |->
                        [k \in 1..Len(first_converted_gate) |->
                            IF k = i + 1 THEN 1 ELSE 0]]
              ELSE next(c[2], add_data_list,
                        [q \in 1..n |->
                            IF q = gate_data[2] + 1 \/ q = c[3] + 1
                            THEN 1 ELSE cnot_mask[q]])
          placed(rg, add) ==
              IF \A q \in 1..n : rg[q] # ""
              THEN [result_gate |-> rg, add_data_list |-> add]
              ELSE next(rg, add, cnot_mask)
      IN  IF data_list[i + 1] >= Len(gate_data[1])
          THEN next(result_gate, add_data_list, cnot_mask)
          ELSE IF gate_data[1][1] = "cnot"
          THEN cnot(func_cnot_convert(n, data_list, gate_data[2],
                                      result_gate, first_converted_gate, i))
          ELSE IF /\ result_gate[gate_data[2] + 1] = ""
                  /\ cnot_mask[gate_data[2] + 1] = 0
          THEN placed([result_gate EXCEPT ![gate_data[2] + 1] =
                           gate_data[1][data_list[i + 1] + 1]],
                      [add_data_list EXCEPT ![i + 1] = 1])
          ELSE next(result_gate, add_data_list, cnot_mask)

\* gate_convert_2.py:159-188: one pass of the while loop, the time step and
\* the records it has taken a gate from
ConvertPass(n, first_converted_gate, data_list) ==
    ConvertFrom(n, first_converted_gate, data_list, 0,
                [q \in 1..n |-> ""],
                [k \in 1..Len(first_converted_gate) |-> 0],
                [q \in 1..n |-> 0])

\* gate_convert_2.py:156: every record has given all the gates of its label
AllConverted(first_converted_gate, data_list) ==
    \A i \in 1..Len(first_converted_gate) :
        data_list[i] >= Len(first_converted_gate[i][1])

\* The labels of the table entries that the search has chosen
LowerLabels == {<<>>, <<"H">>, <<"H", "X">>}

\* The steps (targetQubit_1, targetQubit_2) of the orders that add_order
\* returns for the target radii that radius_judge accepts, with the number
\* of qubits
PlannedSteps ==
    UNION { { [numQubit |-> n,
               steps |-> [k \in 1..Len(plan.order) |->
                             <<plan.order[k][1][1], plan.order[k][2][1]>>]] :
              plan \in { p \in { add_order(judged.data) :
                                   judged \in { j \in { radius_judge(n, r) :
                                                   r \in [1..n -> AddOrderRadii] } :
                                                j.tag = "sorted" /\ j.data # <<>> } } :
                         ~p.exc } } :
            n \in 2..MaxQubits }

\* func_2.py:700-708, 740-744: the gate list of a run, three records for
\* every step of the order and then one record for every qubit
GateList(n, steps, labels) ==
    [k \in 1..(3 * Len(steps) + n) |->
        IF k > 3 * Len(steps)
        THEN <<labels[k - Len(steps)], k - 3 * Len(steps) - 1>>
        ELSE IF k % 3 = 1
        THEN <<labels[2 * ((k + 2) \div 3) - 1], steps[(k + 2) \div 3][1]>>
        ELSE IF k % 3 = 2
        THEN <<labels[2 * ((k + 2) \div 3)], steps[(k + 2) \div 3][2]>>
        ELSE << <<"cnot">>, steps[k \div 3][2] >>]

RECURSIVE GateCount(_)
GateCount(first_converted_gate) ==
    IF first_converted_gate = <<>> THEN 0
    ELSE Len(first_converted_gate[1][1]) + GateCount(Tail(first_converted_gate))

InitLower ==
    /\ args = [json_long |-> <<>>, json_short |-> <<>>,
               target_coordinates |-> [q \in 1..2 |-> <<0, 0>>],
               target_radius |-> [q \in 1..2 |-> <<1, 1>>]]
    /\ heap = InitialHeap(2)
    /\ pc = "probe"
    /\ InitLocals
    /\ InitWeb
    /\ \E plan \in PlannedSteps :
       \E labels \in [1..(2 * Len(plan.steps) + plan.numQubit) -> LowerLabels] :
       \E gate_array_0 \in {GateList(plan.numQubit, plan.steps, labels)} :
         probe = [fn |-> "second_convert_gate", numQubit |-> plan.numQubit,
                  input |-> gate_array_0, at |-> "loop",
                  data_list |-> [k \in 1..Len(gate_array_0) |-> 0],
                  added |-> <<>>, final_result_gate |-> <<>>,
                  result |-> <<>>]

\* gate_convert_2.py:154-191: one pass of the while loop.  No more passes
\* are modelled than the list has gates, so that the model is finite.
LowerPass ==
    /\ pc = "probe" /\ probe.fn = "second_convert_gate" /\ probe.at = "loop"
    /\ ~AllConverted(probe.input, probe.data_list)
    /\ Len(probe.final_result_gate) <= GateCount(probe.input)
    /\ \E pass \in {ConvertPass(probe.numQubit, probe.input, probe.data_list)} :
         probe' = [probe EXCEPT
                     !.final_result_gate = Append(@, pass.result_gate),
                     !.added = Append(@, pass.add_data_list),
                     !.data_list = [k \in 1..Len(probe.input) |->
                                       probe.data_list[k] + pass.add_data_list[k]]]
    /\ ProbeUnchanged

\* gate_convert_2.py:156-157, 193: the loop is left and the layout returned
LowerReturn ==
    /\ pc = "probe" /\ probe.fn = "second_convert_gate" /\ probe.at = "loop"
    /\ AllConverted(probe.input, probe.data_list)
    /\ probe' = [probe EXCEPT !.at = "returned",
                              !.result = probe.final_result_gate]
    /\ ProbeUnchanged

NextLower == LowerPass \/ LowerReturn

SpecLower == InitLower /\ [][NextLower]_vars

-----------------------------------------------------------------------------
(* Properties of mainCalc and of the planner *)

\* The callback has asked for the run to stop
Cancelled == callback.reply = FALSE

\* The qubits whose target radius is below 1 - 1e-5
EntangledQubits ==
    {q \in 1..Len(args.target_radius) : RLess(args.target_radius[q], OneMinusEps)}

\* The planner reports the targets as unattainable
Infeasible == radius_judge(numQubit, args.target_radius).tag = "radiusError"

\* The run came to its end without cancellation and without a planner error
Uncancelled == pc = "done" /\ ~Cancelled /\ ~Infeasible

\* The entangled qubit of smallest radius, the lowest-numbered among equals
SmallestEntangled ==
    CHOOSE q \in EntangledQubits :
        \A o \in EntangledQubits :
            \/ RLess(args.target_radius[q], args.target_radius[o])
            \/ args.target_radius[q] = args.target_radius[o] /\ q <= o

\* The product of the target radii of a set of qubits
RECURSIVE ProductOver(_)
ProductOver(qubits) ==
    IF qubits = {} THEN RInt(1)
    ELSE LET q == CHOOSE x \in qubits : TRUE
         IN  RMul(args.target_radius[q], ProductOver(qubits \ {q}))

\* The product of the radii of a list's entries from position 2 on
ProductOfLarger(entries) ==
    LET partial[k \in 1..Len(entries)] ==
            IF k = 1 THEN RInt(1) ELSE RMul(partial[k - 1], entries[k][2])
    IN  partial[Len(entries)]

Ascending(entries) ==
    \A k \in 1..(Len(entries) - 1) : RLeq(entries[k][2], entries[k + 1][2])

Radii(entries) == [k \in 1..Len(entries) |-> entries[k][2]]

Phase1Positions == {"p1_step", "p1_outer", "p1_call", "p1_eval", "p1_commit"}

\* C1: when the callback answers false, in Phase 1 or Phase 2 and at any
\* invocation, mainCalc returns (False, False) in that very step, with no gate
\* list and with nothing evaluated or changed any more, and once the callback
\* has answered false it is never invoked again.
C1_Cancellation ==
    [][ /\ callback'.reply = FALSE =>
              /\ pc' = "done"
              /\ ret' = Returned(FALSE, FALSE)
              /\ evaluated' = evaluated
              /\ heap' = heap
        /\ callback.reply = FALSE => callback' = callback ]_vars

\* A run cancelled at a later invocation, after records had been committed
C1_Witness ==
    /\ Cancelled
    /\ pc = "done"
    /\ callback.calls > 1
    /\ gate_array # <<>>
    /\ ret = Returned(FALSE, FALSE)

\* C2: when radius_judge reports a violation, mainCalc returns the list
\* ["radiusError", number of entangled qubits, (qubit, radius) of the smallest
\* radius, product of the other entangled radii] with an empty state, the
\* callback was never invoked, no candidate was evaluated, no record was
\* made and the arrays are as they were on entry.
C2_FeasibilityErrorShortCircuits ==
    (Infeasible /\ pc # "start") =>
        /\ pc = "done"
        /\ ret = Returned(<<"radiusError", Cardinality(EntangledQubits),
                            <<SmallestEntangled - 1,
                              args.target_radius[SmallestEntangled]>>,
                            ProductOver(EntangledQubits \ {SmallestEntangled})>>,
                          <<>>)
        /\ callback.calls = 0
        /\ evaluated = 0
        /\ gate_array = <<>>
        /\ heap = InitialHeap(numQubit)

\* An infeasible run of several entangled qubits that has returned
C2_Witness ==
    /\ Infeasible
    /\ pc = "done"
    /\ Cardinality(EntangledQubits) >= 2
    /\ ret.kind = "returned"

\* C3: for an ascending list of at least two entries radius_inspect reports
\* an error (flag False) exactly when the product of the radii other than the
\* smallest is greater than the smallest radius, and feasible (flag True)
\* exactly when that product is at most the smallest radius.
C3_FeasibilityRule ==
    (probe.fn = "radius_inspect" /\ Len(probe.input) >= 2 /\ Ascending(probe.input)) =>
        /\ probe.result[3] = FALSE <=>
               RLess(probe.input[1][2], ProductOfLarger(probe.input))
        /\ probe.result[3] = TRUE <=>
               RLeq(ProductOfLarger(probe.input), probe.input[1][2])

\* A feasible list of three non-zero radii
C3_Witness ==
    /\ probe.fn = "radius_inspect"
    /\ Len(probe.input) = 3
    /\ Ascending(probe.input)
    /\ ~RIsZero(probe.input[1][2])
    /\ probe.result[3] = TRUE

StatedRadii == << <<1, 2>>, <<9, 10>>, <<19, 20>> >>

\* C4 (as amended): for the sorted radii [0.5, 0.9, 0.95] the product of the
\* larger two, 0.855, exceeds the smallest, and radius_inspect reports an
\* error (flag False) with 0.855 as the lower bound.
C4_StatedCaseIsAnError ==
    (probe.fn = "radius_inspect" /\ Radii(probe.input) = StatedRadii) =>
        /\ probe.result[3] = FALSE
        /\ probe.result[2] = <<171, 200>>

\* radius_inspect has been applied to [0.5, 0.9, 0.95]
C4_Witness ==
    /\ probe.fn = "radius_inspect"
    /\ Radii(probe.input) = StatedRadii
    /\ RLess(probe.input[1][2], ProductOfLarger(probe.input))

\* C4 as stated: radius_inspect reports feasible (flag True) for
\* [0.5, 0.9, 0.95].
C4_StatedCaseIsFeasible ==
    (probe.fn = "radius_inspect" /\ Radii(probe.input) = StatedRadii) =>
        probe.result[3] = TRUE

\* C5: when exactly one qubit has a target radius below 1 - 1e-5,
\* radius_judge returns the radiusError list with count 1 and that qubit and
\* its radius as the offending pair, whatever the radius is.
C5_SingleEntangledQubitIsAnError ==
    (probe.fn = "radius_judge" /\ Cardinality(EntangledQubits) = 1) =>
        /\ probe.result.tag = "radiusError"
        /\ probe.result.data[1] = "radiusError"
        /\ probe.result.data[2] = 1
        /\ \A q \in EntangledQubits :
               probe.result.data[3] = <<q - 1, args.target_radius[q]>>

\* radius_judge applied where the third of three qubits alone is entangled
C5_Witness ==
    /\ probe.fn = "radius_judge"
    /\ Len(args.target_radius) = 3
    /\ EntangledQubits = {3}
    /\ probe.result.tag = "radiusError"

\* No record of the list is a CNOT record
NoCnot(records) == \A k \in 1..Len(records) : records[k][1] # <<"cnot">>

\* C6: when every target radius is at least 1 - 1e-5 the order is empty and
\* only Phase 2 runs: mainCalc never stands in Phase 1, no CNOT record is
\* made, every callback invocation comes from the long-table loop and every
\* evaluation is an evaluation of a long-table candidate.
C6_NoEntanglementRunsPhase2Only ==
    [][ EntangledQubits = {} =>
            /\ calc_order' = <<>>
            /\ pc' \notin Phase1Positions
            /\ NoCnot(gate_array')
            /\ callback' # callback => pc = "p2_call"
            /\ evaluated' # evaluated => pc = "p2_eval" ]_vars

\* A completed run of several qubits none of which needs entanglement
C6_Witness ==
    /\ EntangledQubits = {}
    /\ numQubit >= 2
    /\ pc = "done"
    /\ ret.kind = "returned"
    /\ callback.calls > 0
    /\ Len(gate_array) = numQubit

\* C7: unless the run is cancelled or the targets are infeasible, mainCalc
\* ends by returning a gate list and a final state, whatever the tables and
\* targets are: it never ends by raising an exception.
C7_AlwaysBestEffortResult ==
    Uncancelled => ret.kind = "returned"

\* C8: from each callback invocation to the next of the same run the
\* progress value strictly increases.
C8_ProgressStrictlyIncreases ==
    [][ (callback'.calls = callback.calls + 1 /\ callback.calls >= 1) =>
            RLess(callback.last, callback'.last) ]_vars

\* A run with a full short table that has passed from Phase 1 into the
\* second qubit of Phase 2
C8_Witness ==
    /\ pc = "p2_eval"
    /\ Len(calc_order) >= 1
    /\ Len(args.json_short) = MaxShort
    /\ qubit_i >= 1
    /\ callback.calls >= 2

\* K*S*S + n*L for the run's order and tables
ExpectedInvocations ==
    Len(calc_order) * Len(args.json_short) * Len(args.json_short)
    + numQubit * Len(args.json_long)

\* C9: the callback is invoked once per innermost iteration, before that
\* iteration's evaluation and nowhere else: every evaluation is preceded by
\* its own invocation, between iterations the numbers of invocations and of
\* evaluations agree, a false answer is followed by no evaluation, and a run
\* that returns a result has made exactly K*S*S + n*L invocations.
C9_OneInvocationPerIteration ==
    /\ pc \in {"p1_eval", "p2_eval"} => callback.calls = evaluated + 1
    /\ (pc \notin {"p1_eval", "p2_eval"} /\ ~Cancelled) => callback.calls = evaluated
    /\ Cancelled => callback.calls = evaluated + 1
    /\ (Uncancelled /\ ret.kind = "returned") => callback.calls = ExpectedInvocations

\* A run over both phases with full tables that has returned its result
C9_Witness ==
    /\ Uncancelled
    /\ ret.kind = "returned"
    /\ Len(calc_order) >= 1
    /\ Len(args.json_short) = MaxShort
    /\ Len(args.json_long) = MaxLong
    /\ numQubit = MaxQubits

\* C10: the committed state, which at first is the caller's array, is left
\* as it is by every candidate evaluation, accepted or rejected; the caller's
\* array is never written; result_state changes only at the end of a step,
\* and then to a new array holding the contents of the best state found.
C10_CopyCompareCommit ==
    [][ /\ heap'[CallerArray] = heap[CallerArray]
        /\ pc \notin {"p1_commit", "p2_commit"} =>
               /\ result_state' = result_state
               /\ heap'[result_state] = heap[result_state]
        /\ result_state' # result_state =>
               /\ pc \in {"p1_commit", "p2_commit"}
               /\ result_state' \notin {result_state, state, data_1_state}
               /\ heap'[result_state'] = heap[state]
               /\ heap'[state] = heap[state] ]_vars

\* Candidates were evaluated, some rejected, and a state other than the
\* caller's has been committed
C10_Witness ==
    /\ result_state # CallerArray
    /\ heap[result_state] # heap[CallerArray]
    /\ evaluated >= 2
    /\ pc = "p2_eval"
    /\ min_diff # RInt(4)

-----------------------------------------------------------------------------
(* Properties of apply_controlled_gate *)

\* The qubits marked as controls in a descriptor
Controls(gate) == {q \in 0..(Len(gate) - 1) : gate[q + 1] = "c"}

\* The qubits marked as targets in a descriptor
Targets(gate) == {q \in 0..(Len(gate) - 1) : gate[q + 1] = "TG"}

\* C11: apply_controlled_gate called twice with the matrix X and the same
\* gate descriptor gives back every amplitude of the state vector it started
\* from, whatever the qubit count, the target and the set of controls.
C11_XTwiceRestores ==
    (probe.fn = "apply_controlled_gate twice" /\ probe.matrix = X)
        => probe.result = probe.input

\* X was applied twice under several controls, and one application alone
\* would have changed the vector
C11_Witness ==
    /\ probe.fn = "apply_controlled_gate twice"
    /\ probe.matrix = X
    /\ Cardinality(Controls(probe.gate)) >= 2
    /\ Cardinality(Targets(probe.gate)) = 1
    /\ apply_controlled_gate(probe.input, probe.gate, X, numQubit) # probe.input
    /\ probe.result = probe.input

\* Bit of qubit q in the index j of an n-qubit vector (qubit 0 is the most
\* significant bit)
BitOf(j, q, n) == (j \div Pow2(n - 1 - q)) % 2

\* The index j with the bit of qubit q set to b
WithBit(j, q, n, b) == j + (b - BitOf(j, q, n)) * Pow2(n - 1 - q)

\* Bitwise reference: amplitude j after the matrix t has acted on the target
\* qubit under the controls of the descriptor
ReferenceAmplitude(amp, gate, t, n, target, j) ==
    IF \A c \in Controls(gate) : BitOf(j, c, n) = 1
    THEN CAdd(CMul(amp[WithBit(j, target, n, 0)], t[BitOf(j, target, n) + 1][1]),
              CMul(amp[WithBit(j, target, n, 1)], t[BitOf(j, target, n) + 1][2]))
    ELSE amp[j]

\* C12: for a descriptor with one target and no, one or several controls,
\* apply_controlled_gate multiplies the matrix into exactly the pairs of
\* amplitudes that differ only in the target bit and have every control bit
\* 1, each pair once, and leaves every amplitude with a control bit 0 as it
\* was: the result equals the bitwise reference at every index.
C12_MatchesBitwiseReference ==
    (probe.fn = "apply_controlled_gate" /\ Cardinality(Targets(probe.gate)) = 1)
        => \A j \in 0..(Pow2(numQubit) - 1) :
               probe.result.amp[j] =
                   ReferenceAmplitude(probe.input.amp, probe.gate, probe.matrix.m,
                                      numQubit, CHOOSE q \in Targets(probe.gate) : TRUE,
                                      j)

\* The four-entry matrix was applied to the middle qubit under a control on
\* either side: some amplitudes changed and some did not
C12_Witness ==
    /\ probe.fn = "apply_controlled_gate"
    /\ probe.matrix = MatM
    /\ numQubit >= 3
    /\ probe.gate[1] = "c" /\ probe.gate[2] = "TG" /\ probe.gate[3] = "c"
    /\ \E j \in 0..(Pow2(numQubit) - 1) : probe.result.amp[j] # probe.input.amp[j]
    /\ \E j \in 0..(Pow2(numQubit) - 1) : probe.result.amp[j] = probe.input.amp[j]

\* C17: when none of the first numQubit roles of the descriptor is 'TG',
\* apply_controlled_gate returns the state vector it was given, unchanged,
\* whether or not controls are marked.
C17_NoTargetIsNoOp ==
    (probe.fn = "apply_controlled_gate" /\ Targets(probe.gate) = {})
        => probe.result = probe.input

\* A descriptor with controls and no target was applied with a matrix that
\* would have changed the vector on any target
C17_Witness ==
    /\ probe.fn = "apply_controlled_gate"
    /\ Targets(probe.gate) = {}
    /\ Controls(probe.gate) # {}
    /\ \A q \in 0..(numQubit - 1) :
           apply_controlled_gate(probe.input, [r \in 1..numQubit |->
                                     IF r = q + 1 THEN "TG" ELSE ""],
                                 probe.matrix, numQubit) # probe.input
    /\ probe.result = probe.input

-----------------------------------------------------------------------------
(* Properties of partical_trace and of the Bloch coordinates *)

\* The sum of |amp[j]|^2 over the indices j of a set
RECURSIVE SumAbsSq(_, _)
SumAbsSq(amp, S) ==
    IF S = {} THEN 0
    ELSE LET j == CHOOSE x \in S : TRUE
         IN  CAbsSq(amp[j]) + SumAbsSq(amp, S \ {j})

\* The indices of an n-qubit vector in which qubit q is 0
IndicesWithZero(q, n) == {j \in 0..(Pow2(n) - 1) : BitOf(j, q, n) = 0}

\* C15: in the matrix partical_trace returns for qubit i, entry [0][0] is
\* the sum of |amplitude(j)|^2 over the basis indices j in which qubit i is
\* 0, entry [1][1] is 1 - [0][0], and entry [1][0] is the complex conjugate
\* of entry [0][1]; this holds for each qubit on its own.
C15_ReducedDensityMatrix ==
    probe.fn = "partical_trace"
        => \A i \in 0..(numQubit - 1) :
             /\ probe.result[i + 1].d00 =
                    Rat(SumAbsSq(probe.input.amp, IndicesWithZero(i, numQubit)),
                        Pow2(probe.input.h))
             /\ probe.result[i + 1].d11 = RSub(RInt(1), probe.result[i + 1].d00)
             /\ probe.result[i + 1].d10[1] = probe.result[i + 1].d01[1]
             /\ probe.result[i + 1].d10[2] =
                    RSub(RInt(0), probe.result[i + 1].d01[2])

\* A vector of several qubits whose qubits have different occupations and a
\* coherence with an imaginary part
C15_Witness ==
    /\ probe.fn = "partical_trace"
    /\ numQubit >= 2
    /\ probe.result[1].d00 # probe.result[2].d00
    /\ \E i \in 0..(numQubit - 1) : ~RIsZero(probe.result[i + 1].d01[2])
    /\ \E i \in 0..(numQubit - 1) :
           /\ ~RIsZero(probe.result[i + 1].d00)
           /\ ~RIsZero(probe.result[i + 1].d11)

\* The float mant * 2^exp is at most n * 2^-53 in size, for a small n
AtMostUnits(x, n) ==
    /\ \A k \in 2..10 : x.mant[k] = 0
    /\ x.exp \in {-53, -52}
    /\ x.mant[1] * Pow2(x.exp + 53) <= n

\* C16: for a 2-qubit vector of Bell type (equal weight 1/2, up to the
\* rounding of the amplitudes, on two basis states that differ in both
\* qubits) partical_trace with CoordinateCalc and RadiusCalc gives, for
\* both qubits, x = 0 and y = 0 exactly and a z and a radius of the same
\* size, at most 4 * MaxUlps units of 2^-53 (below 1e-15): zero up to the
\* rounding of the squared amplitude.
C16_RadiusZeroUpToRounding ==
    probe.fn = "RadiusCalc"
        => \A q \in 1..2 :
             /\ IsZero(probe.result.coordinates[q][1])
             /\ IsZero(probe.result.coordinates[q][2])
             /\ AtMostUnits(probe.result.coordinates[q][3], 4 * MaxUlps)
             /\ ~probe.result.radius[q].neg
             /\ probe.result.radius[q].mant = probe.result.coordinates[q][3].mant
             /\ probe.result.radius[q].exp = probe.result.coordinates[q][3].exp

\* The vector (|00> + |11>) * 0x1.6a09e667f3bcdp-1, which H and the
\* controlled X make of |00>: both radii are 2^-52
C16_Witness ==
    /\ probe.fn = "RadiusCalc"
    /\ probe.input[0] = [mag |-> SqrtHalf, phase |-> <<1, 0>>]
    /\ probe.input[3] = [mag |-> SqrtHalf, phase |-> <<1, 0>>]
    /\ \A q \in 1..2 :
         /\ probe.result.radius[q].mant = LimbPow2(0)
         /\ probe.result.radius[q].exp = -52

\* The claim as it is worded: the coordinate is (0, 0, 0) and the radius
\* is 0 for both qubits
C16_RadiusExactlyZero ==
    probe.fn = "RadiusCalc"
        => \A q \in 1..2 :
             /\ \A c \in 1..3 : IsZero(probe.result.coordinates[q][c])
             /\ IsZero(probe.result.radius[q])


-----------------------------------------------------------------------------
(* Properties of calc_order_1 *)

\* The steps calc_order_1 is said to produce for a group: one per non-anchor
\* member, in sort order, the member with its own radius first and the
\* anchor second
PairsMembersWithAnchor(group, order) ==
    /\ Len(order) = Len(group) - 1
    /\ \A i \in 1..Len(order) :
         /\ order[i][1] = <<group[i + 1][1], group[i + 1][2]>>
         /\ order[i][2][1] = group[1][1]

\* C19: calc_order_1 expands a group of k >= 2 members, the first being the
\* anchor, into one step when k = 2 and k - 1 steps when k >= 3; step i
\* pairs the i-th non-anchor member, with its own target radius, with the
\* anchor, which is the second qubit of every step.
C19_OneStepPerNonAnchorMember ==
    probe.fn = "calc_order_1"
        => /\ ~probe.result.exc
           /\ PairsMembersWithAnchor(probe.input[2], probe.result.order)

-----------------------------------------------------------------------------
(* Properties of the two search phases *)

\* The descriptor that marks qubit t as the target and the qubits of cs as
\* controls
Roles(n, t, cs) ==
    [q \in 1..n |-> IF q = t + 1 THEN "TG" ELSE IF (q - 1) \in cs THEN "c" ELSE ""]

\* The state a Phase 1 candidate pair leads to from the committed state:
\* short-table entry i1 on A, entry i2 on B, then X on B controlled by A
PairState(base, A, B, i1, i2) ==
    apply_controlled_gate(
        apply_controlled_gate(
            apply_controlled_gate(base, Roles(numQubit, A, {}),
                                  args.json_short[i1][2], numQubit),
            Roles(numQubit, B, {}), args.json_short[i2][2], numQubit),
        Roles(numQubit, B, {A}), X, numQubit)

\* The mean radius error of a step's two qubits in a state, squared
PairError(sv, step) ==
    Score(Phase1Diff(RadiusCalc(partical_trace(sv, numQubit), step), step))

ShortIndices == 1..Len(args.json_short)

\* C13: a Phase 1 step for the order entry (A, B) commits the state reached
\* by a short-table gate on A, a short-table gate on B and then X on B
\* controlled by A, for a pair of gates whose error no other pair undercuts,
\* and appends exactly the three records [label of the gate on A, A],
\* [label of the gate on B, B], [["cnot"], B] with the labels of that pair.
C13_Phase1StepCommitsBestPair ==
    [][ (pc = "p1_commit" /\ pc' # "done") =>
          \E i1 \in ShortIndices, i2 \in ShortIndices :
            /\ heap'[result_state'] =
                   PairState(heap[result_state], targetQubit_1, targetQubit_2, i1, i2)
            /\ gate_array' = gate_array \o
                   << <<args.json_short[i1][1], targetQubit_1>>,
                      <<args.json_short[i2][1], targetQubit_2>>,
                      << <<"cnot">>, targetQubit_2 >> >>
            /\ \A j1 \in ShortIndices, j2 \in ShortIndices :
                 RLeq(PairError(heap'[result_state'], Order),
                      PairError(PairState(heap[result_state], targetQubit_1,
                                          targetQubit_2, j1, j2), Order)) ]_vars

\* Two Phase 1 steps have committed, the first with a Hadamard on its first
\* qubit, and the committed state is entangled
C13_Witness ==
    /\ pc = "p2_step"
    /\ Len(calc_order) >= 2
    /\ Len(gate_array) = 3 * Len(calc_order)
    /\ gate_array[1] = << <<"H">>, calc_order[1][1][1] >>
    /\ gate_array[3] = << <<"cnot">>, calc_order[1][2][1] >>
    /\ heap[result_state] # heap[CallerArray]

LongIndices == 1..Len(args.json_long)

\* The state a Phase 2 candidate leads to from the committed state:
\* long-table entry k on qubit i alone
SingleState(base, i, k) ==
    apply_controlled_gate(base, Roles(numQubit, i, {}), args.json_long[k][2],
                          numQubit)

\* The distance of qubit i from its target coordinate in a state, squared
SingleError(sv, i) ==
    distanceDiff(CoordinateCalc(partical_trace(sv, numQubit)[i + 1]),
                 args.target_coordinates[i + 1])

\* C14: in Phase 2 the step of qubit i, for i = 0, ..., n-1 in this order,
\* commits the state a long-table candidate applied to qubit i alone leads
\* to, for a candidate whose distance no other candidate undercuts, and
\* appends that candidate's record [label, i]; the gate list of a run that
\* returns a result ends with n records whose targets are 0, 1, ..., n-1.
C14_Phase2CommitsBestPerQubit ==
    [][ /\ (pc = "p2_commit" /\ ret'.kind # "raised") =>
              \E k \in LongIndices :
                /\ heap'[result_state'] = SingleState(heap[result_state], qubit_i, k)
                /\ gate_array' = Append(gate_array, <<args.json_long[k][1], qubit_i>>)
                /\ \A j \in LongIndices :
                     RLeq(SingleError(heap'[result_state'], qubit_i),
                          SingleError(SingleState(heap[result_state], qubit_i, j),
                                      qubit_i))
        /\ (pc = "p2_commit" /\ ret'.kind = "returned") =>
              /\ Len(gate_array') >= numQubit
              /\ \A i \in 0..(numQubit - 1) :
                   gate_array'[Len(gate_array') - numQubit + i + 1][2] = i ]_vars

-----------------------------------------------------------------------------
(* Properties of the running minimum *)

\* Error a is below error b by more than 1e-12
BelowByMoreThanEps(a, b) ==
    IF a.half = b.half THEN b.tick - a.tick > EpsTicks ELSE a.half < b.half

\* Error a is below error b
Below(a, b) ==
    IF a.half = b.half THEN a.tick < b.tick ELSE a.half < b.half

\* The table position of the candidate whose record a step has appended
Committed(gates) == gates[Len(gates)][1][1]

-----------------------------------------------------------------------------
(* Properties of the web layer *)

\* The threads that are inside the search
Searching == {t \in 1..MaxRequests : threads[t].pc = "search"}

\* C20: when the user submits a new calculation while the previous thread
\* is still searching, the previous thread sees the stop flag and leaves its
\* search before the new thread starts searching: under every interleaving
\* of get_vector, the old thread's callbacks and the new thread's initial
\* callback and wait loop, at most one thread of the user is searching.
C20_OneSearchPerUser == Cardinality(Searching) <= 1


-----------------------------------------------------------------------------
(* Properties of the qubit numbering *)

\* The index whose bit for qubit k is 1 and whose other bits are 0, qubit 0
\* being the highest bit
OnlyQubit(n, k) == Pow2(n - 1 - k)

\* The vector with 1.0 at index i and 0 elsewhere
BasisVector(n, i) == [j \in 0..(Pow2(n) - 1) |-> IF j = i THEN FloatOne ELSE FloatZero]

\* C24: initialization, gate kernel and partial trace number the qubits
\* alike.  For every n and k < n, an uncontrolled X on qubit k of the
\* all-|0> vector gives exactly the basis vector of index 2^(n-1-k), and
\* partical_trace of it has [0][0] equal to 0 for qubit k and to 1 for every
\* other qubit.  Initializing qubit k alone at polar angle 180 gives the same
\* vector in every entry but entry 0, which holds cos(pi/2) as float64
\* computes it, 6.1e-17; its [0][0] is below 2^-107 for qubit k and 1 for
\* every other qubit.
C24_SameNumberingUpToCosHalfPi ==
    probe.fn = "numbering"
        => \E n \in {probe.input.numQubit}, k \in {probe.input.k} :
             /\ probe.result.flipped = BasisVector(n, OnlyQubit(n, k))
             /\ \A j \in 1..(Pow2(n) - 1) :
                    probe.result.initialized[j] = probe.result.flipped[j]
             /\ probe.result.initialized[0] = CosHalfPi
             /\ \A q \in 1..n :
                  /\ probe.result.flipped_d00[q]
                         = IF q = k + 1 THEN FloatZero ELSE FloatOne
                  /\ q # k + 1 => probe.result.initialized_d00[q] = FloatOne
                  /\ q = k + 1 =>
                         /\ ~IsZero(probe.result.initialized_d00[q])
                         /\ probe.result.initialized_d00[q].exp <= -160

\* Three qubits, X on the middle one: index 2
C24_Witness ==
    /\ probe.fn = "numbering"
    /\ probe.input.numQubit = 3 /\ probe.input.k = 1
    /\ probe.result.flipped[2] = FloatOne
    /\ probe.result.initialized[2] = FloatOne
    /\ probe.result.flipped_d00 = <<FloatOne, FloatZero, FloatOne>>

\* The claim as it is worded: the two vectors are the same, and [0][0] is 0
\* for qubit k and 1 for every other qubit
C24_SameVector ==
    probe.fn = "numbering"
        => /\ probe.result.initialized = probe.result.flipped
           /\ \A q \in 1..probe.input.numQubit :
                /\ probe.result.flipped_d00[q]
                       = IF q = probe.input.k + 1 THEN FloatZero ELSE FloatOne
                /\ probe.result.initialized_d00[q]
                       = IF q = probe.input.k + 1 THEN FloatZero ELSE FloatOne


-----------------------------------------------------------------------------
(* Properties of the loop of add_order *)

Unmarked(mask) == Cardinality({k \in 1..Len(mask) : mask[k] = 0})

\* A pass of the loop has just run
PassTaken == probe.fn = "add_order" /\ probe.at = "loop" /\ probe'.count # probe.count

\* C25: add_order terminates for every non-empty sorted input.  Each pass
\* of its loop raises the pass number by one and marks at least one position
\* that was unmarked, or leaves the loop; the pass number never exceeds the
\* number of entries; and while the loop runs there is an unmarked entry to
\* start the next pass from, which is a pass the bound still allows.  The
\* loop therefore ends after at most as many passes as the list has entries.
C25_AddOrderTerminates ==
    /\ [][PassTaken => /\ probe'.count = probe.count + 1
                       /\ \/ Unmarked(probe'.mask) < Unmarked(probe.mask)
                          \/ probe'.at # "loop"]_vars
    /\ [](probe.fn = "add_order" => probe.count <= Len(probe.input))
    /\ [](probe.fn = "add_order" /\ probe.at = "loop"
            => Unmarked(probe.mask) > 0 /\ probe.count < Len(probe.input))

\* A list that takes two passes: a group first, then the pairing branch
C25_Witness ==
    /\ probe.fn = "add_order"
    /\ probe.at = "returned"
    /\ probe.count = 2
    /\ Len(probe.result_array) = 1
    /\ Len(probe.result_array_2) = 1


-----------------------------------------------------------------------------
(* Properties of the steps of add_order *)

\* The list is one that radius_judge returns: two or more entries, all below
\* the threshold, the smallest radius not below the product of the others
AcceptedInput ==
    /\ probe.fn = "add_order"
    /\ \E judged \in {radius_judge(Len(probe.input),
                                   [k \in 1..Len(probe.input) |-> probe.input[k][2]])} :
         judged.tag = "sorted" /\ judged.data = probe.input

\* C22: for every sorted list that radius_judge accepts, the first pass of
\* add_order takes the group branch and not the individual pairing; no
\* individual pair has list position 0 as its second entry (so none reaches
\* back to the last entry); and every step of the returned order names two
\* different qubits, so that the gate array of the Phase 1 CNOT has a
\* control beside its target.
C22_StepsNameTwoQubits ==
    AcceptedInput
        => /\ probe.count = 1 => probe.result_array_2 = <<>>
           /\ probe.count >= 1 =>
                  \/ Len(probe.result_array) >= 1
                  \/ probe.at = "raised"
           /\ \A k \in 1..Len(probe.result_array_2) :
                  /\ probe.result_array_2[k][2] # probe.input[1]
                  /\ probe.result_array_2[k][1][1] # probe.result_array_2[k][2][1]
           /\ probe.at = "returned" =>
                  \A k \in 1..Len(probe.result) :
                      /\ probe.result[k][1][1] # probe.result[k][2][1]
                      /\ \E q \in 1..Len(probe.input) :
                             CreateGateArray(Len(probe.input),
                                             probe.result[k][2][1],
                                             probe.result[k][1][1])[q] = "c"

\* An accepted list of three entries: a group of two, then the third entry
\* paired with the entry before it
C22_Witness ==
    /\ AcceptedInput
    /\ probe.at = "returned"
    /\ Len(probe.input) = 3
    /\ Len(probe.result) = 2
    /\ probe.result_array_2 = << <<probe.input[2], probe.input[3]>> >>


-----------------------------------------------------------------------------
(* Replay of the returned records *)

\* mainCalc has returned a gate list and a final state
FullReturn == ret.kind = "returned" /\ qubit_i = numQubit /\ pc = "done"

\* The matrix of the table entry with this label
MatrixOf(label) ==
    (CHOOSE c \in {CandidateList[k] : k \in 1..Len(CandidateList)} : c[1] = label)[2]

\* The vector after the records from k on are applied to sv in list order: a
\* cnot record as X on its qubit, controlled by the qubit of the record two
\* places before it, any other record as its matrix on its qubit
RECURSIVE Replay(_, _, _)
Replay(records, k, sv) ==
    IF k > Len(records) THEN sv
    ELSE Replay(records, k + 1,
             IF records[k][1] = <<"cnot">>
             THEN apply_controlled_gate(sv,
                      CreateGateArray(numQubit, records[k][2], records[k - 2][2]),
                      X, numQubit)
             ELSE apply_controlled_gate(sv,
                      CreateGateArray(numQubit, records[k][2], -1),
                      MatrixOf(records[k][1]), numQubit))

\* a and b stand for the same numpy array: amp * 2^(-h/2) agree
SameVector(a, b) ==
    /\ (a.h - b.h) % 2 = 0
    /\ \A j \in DOMAIN a.amp :
         \A c \in 1..2 :
           IF a.h >= b.h
           THEN a.amp[j][c] = b.amp[j][c] * Pow2((a.h - b.h) \div 2)
           ELSE b.amp[j][c] = a.amp[j][c] * Pow2((b.h - a.h) \div 2)

\* C21: whenever mainCalc returns a gate list and a final state, applying
\* the returned records in list order to the initial state gives the
\* returned final state, for every table content and target.
C21_ReplayGivesFinalState ==
    FullReturn => SameVector(Replay(ret.value[1], 1, heap[CallerArray]), ret.value[2])

-----------------------------------------------------------------------------
(* Order of the gates of a qubit in the layout of second_convert_gate *)

\* The qubits of record k of a gate list of mainCalc: its own, and for the
\* CNOT record of a step also targetQubit_1, the qubit of the record two
\* places before (func_2.py:700-705)
RecordQubits(first_converted_gate, k) ==
    IF first_converted_gate[k][1] = <<"cnot">>
    THEN {first_converted_gate[k][2], first_converted_gate[k - 2][2]}
    ELSE {first_converted_gate[k][2]}

\* C23: in the layout that second_convert_gate builds from a gate list of
\* mainCalc, empty labels included, no gate of a later record is placed in
\* an earlier time step than a gate or CNOT of an earlier record on the same
\* qubit: for every qubit the time steps follow the order of the records.
C23_LoweringKeepsQubitOrder ==
    probe.fn = "second_convert_gate"
        => \A i, j \in 1..Len(probe.input) :
               (i < j /\ RecordQubits(probe.input, i)
                             \cap RecordQubits(probe.input, j) # {})
                   => \A t_i, t_j \in 1..Len(probe.added) :
                          (probe.added[t_i][i] = 1 /\ probe.added[t_j][j] = 1)
                              => t_i <= t_j

=============================================================================
